---- MODULE Spec2Model ----
(***************************************************************************)
(* Bitcoin block checker gadget (ark-light-bitcoin-client).                *)
(*                                                                         *)
(* Values are kept at their real width.  A byte is a number in 0..255, a   *)
(* header is the sequence of its bytes, a BigUint is the little-endian     *)
(* sequence of its base-256 digits, and an element of ark_vesta::Fr is the *)
(* little-endian sequence of the 32 bytes of its canonical representative. *)
(* All field arithmetic is done on these digit sequences, modulo the real  *)
(* modulus of the field.  SHA-256 is the one external primitive: its       *)
(* values on the headers used here are tabulated (the table is the real    *)
(* function, restricted to those headers).                                 *)
(***************************************************************************)
EXTENDS Integers, Sequences, FiniteSets, TLC

(***************************************************************************)
(* Natural numbers as little-endian base-256 digit sequences (BigUint).    *)
(***************************************************************************)
Min(a, b) == IF a < b THEN a ELSE b
Max(a, b) == IF a > b THEN a ELSE b

\* n zero bytes (vec![0u8; n]).
Zeros(n) == SubSeq([i \in 1..n |-> 0], 1, n)

\* Digit i (1-based) of x; digits beyond the length are 0.
Byte(x, i) == IF i <= Len(x) THEN x[i] ELSE 0

\* The number of digits of x without its most significant zero digits.
TrimLen(x) ==
    LET nz == {k \in 1..Len(x) : x[k] # 0}
    IN IF nz = {} THEN 0 ELSE CHOOSE n \in nz : \A m \in nz : m <= n

\* BigUint normalisation: no most-significant zero digits.
Trim(x) == SubSeq(x, 1, TrimLen(x))

\* x on at least n digits.
Pad(x, n) == IF Len(x) >= n THEN x ELSE x \o Zeros(n - Len(x))

\* The sequence s in reverse order.
Reverse(s) == SubSeq([i \in 1..Len(s) |-> s[Len(s) + 1 - i]], 1, Len(s))

RECURSIVE SumCol(_, _, _, _, _)
\* Column k of the schoolbook product: the sum of a[i] * b[k + 1 - i], i in lo..hi
\* (the range is summed by halves).
SumCol(a, b, k, lo, hi) ==
    IF lo > hi THEN 0
    ELSE IF lo = hi THEN a[lo] * b[k + 1 - lo]
    ELSE SumCol(a, b, k, lo, (lo + hi) \div 2) + SumCol(a, b, k, ((lo + hi) \div 2) + 1, hi)

RECURSIVE CarryRange(_, _, _, _)
\* <<digits, carry out>> of the columns lo..hi (each possibly outside 0..255) with
\* carry c into column lo; the range is done by halves, the low half first.
CarryRange(cols, lo, hi, c) ==
    IF lo = hi THEN <<<<(cols[lo] + c) % 256>>, (cols[lo] + c) \div 256>>
    ELSE LET left == CarryRange(cols, lo, (lo + hi) \div 2, c)
             right == CarryRange(cols, ((lo + hi) \div 2) + 1, hi, left[2])
         IN <<left[1] \o right[1], right[2]>>

RECURSIVE Digits(_)
\* The digits of the natural number c.
Digits(c) == IF c = 0 THEN <<>> ELSE <<c % 256>> \o Digits(c \div 256)

\* The digits of the number whose columns are cols.
Carry(cols) ==
    IF Len(cols) = 0 THEN <<>>
    ELSE LET r == CarryRange(cols, 1, Len(cols), 0) IN r[1] \o Digits(r[2])

\* a * b.
MulNat(a, b) ==
    IF Len(a) = 0 \/ Len(b) = 0 THEN <<>>
    ELSE LET n == Len(a) + Len(b) - 1
         IN Carry(SubSeq([k \in 1..n |->
                            SumCol(a, b, k, Max(1, k + 1 - Len(b)), Min(Len(a), k))],
                         1, n))

\* a + b.
AddNat(a, b) ==
    LET n == Max(Len(a), Len(b))
    IN Carry(SubSeq([k \in 1..n |-> Byte(a, k) + Byte(b, k)], 1, n))

\* -1, 0, 1 as a < b, a = b, a > b (as numbers, whatever the lengths): decided by
\* the most significant digit that differs.
CmpNat(a, b) ==
    LET d == {k \in 1..Max(Len(a), Len(b)) : Byte(a, k) # Byte(b, k)}
    IN IF d = {} THEN 0
       ELSE LET t == CHOOSE k \in d : \A m \in d : m <= k
            IN IF Byte(a, t) < Byte(b, t) THEN -1 ELSE 1

\* a - b, for a >= b, on the digits of the longer.
SubNat(a, b) ==
    LET n == Max(Len(a), Len(b))
    IN IF n = 0 THEN <<>>
       ELSE CarryRange(SubSeq([k \in 1..n |-> Byte(a, k) - Byte(b, k)], 1, n), 1, n, 0)[1]

\* x \div 2.
HalfNat(x) ==
    SubSeq([i \in 1..Len(x) |-> (x[i] \div 2) + (Byte(x, i + 1) % 2) * 128], 1, Len(x))

\* Bit i (0-based, least significant first) of x.
Bit(x, i) == (Byte(x, (i \div 8) + 1) \div (2 ^ (i % 8))) % 2

(***************************************************************************)
(* The field F = ark_vesta::Fr.                                            *)
(***************************************************************************)
\* The modulus 28948022309329048855892746252171976963363056481941560715954676764349967630337
\* = 2^254 + 0x224698fc094cf91b992d30ed00000001, least significant byte first.
MODULUS ==
    <<1, 0, 0, 0, 237, 48, 45, 153, 27, 249, 76, 9, 252, 152, 70, 34,
      0, 0, 0, 0, 0, 0, 0, 0, 0, 0, 0, 0, 0, 0, 0, 64>>


\* The number of bytes of a field element.
FpBytes == Len(MODULUS)

\* (MODULUS - 1) / 2.
MODULUS_MINUS_ONE_DIV_TWO == HalfNat(SubNat(MODULUS, <<1>>))

\* MODULUS - 2^254.
ModulusLow == SubSeq(MODULUS, 1, 16)

\* x mod 2^254, on 32 bytes (x of at least 32 bytes).
Lo254(x) == SubSeq(x, 1, 31) \o <<x[32] % 64>>

\* x \div 2^254 (x of at least 32 bytes).
Hi254(x) ==
    SubSeq([j \in 1..(Len(x) - 31) |-> (x[31 + j] \div 64) + (Byte(x, 32 + j) % 64) * 4],
           1, Len(x) - 31)

RECURSIVE Fold254(_, _, _, _)
\* <<P, N>> with x = P - N modulo MODULUS: since 2^254 = -ModulusLow,
\* hi * 2^254 + lo = lo - ModulusLow * hi.
Fold254(x, pos, P, N) ==
    IF Len(x) < 32
    THEN IF pos THEN <<AddNat(P, x), N>> ELSE <<P, AddNat(N, x)>>
    ELSE Fold254(MulNat(ModulusLow, Trim(Hi254(x))), ~pos,
                 IF pos THEN AddNat(P, Lo254(x)) ELSE P,
                 IF pos THEN N ELSE AddNat(N, Lo254(x)))

RECURSIVE SubWhile(_)
SubWhile(x) == IF CmpNat(x, MODULUS) >= 0 THEN SubWhile(SubNat(x, MODULUS)) ELSE x

RECURSIVE AddUntil(_, _)
AddUntil(P, N) == IF CmpNat(P, N) >= 0 THEN P ELSE AddUntil(AddNat(P, MODULUS), N)

\* x mod MODULUS, for x of a few more digits than MODULUS: x is folded to P - N,
\* multiples of MODULUS are added until P >= N, and taken off the difference
\* while it is not below MODULUS.
FpReduce(x) ==
    LET t == Trim(x)
    IN IF Len(t) < FpBytes THEN Pad(t, FpBytes)
       ELSE LET pn == Fold254(t, TRUE, <<>>, <<>>)
                s == AddUntil(pn[1], pn[2])
            IN IF s = pn[2] THEN Zeros(FpBytes)
               ELSE LET d == SubNat(s, pn[2])
                    IN IF CmpNat(d, MODULUS) < 0 THEN Pad(Trim(d), FpBytes)
                       ELSE Pad(Trim(SubWhile(d)), FpBytes)

\* 256^FpBytes modulo MODULUS: 2^256 = 4 * 2^254 = -4 * ModulusLow.
Pow256FpBytes == Trim(SubNat(MODULUS, MulNat(<<4>>, ModulusLow)))

RECURSIVE FpFrom(_)
\* The field element of the natural number x (F::from): x mod MODULUS.  A long x is
\* reduced FpBytes digits at a time, the most significant first:
\* x = lo + 256^FpBytes * hi.
FpFrom(x) ==
    IF Len(x) <= 2 * FpBytes THEN FpReduce(x)
    ELSE LET hi == Trim(FpFrom(SubSeq(x, FpBytes + 1, Len(x))))
         IN IF Len(hi) = 0 THEN FpReduce(SubSeq(x, 1, FpBytes))
            ELSE FpReduce(AddNat(SubSeq(x, 1, FpBytes), MulNat(Pow256FpBytes, hi)))

FpMul(a, b) ==
    LET x == Trim(a)
        y == Trim(b)
    IN IF Len(x) = 0 \/ Len(y) = 0 THEN Zeros(FpBytes) ELSE FpReduce(MulNat(x, y))
FpAdd(a, b) == FpReduce(AddNat(a, b))
FpSub(a, b) ==
    IF CmpNat(a, b) >= 0 THEN Pad(Trim(SubNat(a, b)), FpBytes)
    ELSE Pad(Trim(SubNat(AddNat(a, MODULUS), b)), FpBytes)
FpDouble(a) == FpAdd(a, a)

(***************************************************************************)
(* Input data.                                                             *)
(***************************************************************************)
\* get_test_block().blockHeaders[0]: a block of the Bitcoin main chain.
TestHeader ==
    <<0, 96, 0, 32, 89, 169, 12, 119, 26, 158, 132, 233, 55, 43, 11, 34, 52, 133, 39, 58,
      25, 186, 62, 15, 252, 144, 5, 0, 0, 0, 0, 0, 0, 0, 0, 0, 231, 201, 83, 209,
      111, 131, 58, 82, 228, 36, 108, 45, 229, 184, 9, 239, 35, 45, 16, 216, 248, 78, 41, 38,
      6, 253, 18, 250, 45, 11, 32, 9, 70, 45, 60, 97, 228, 72, 15, 23, 205, 130, 66, 166>>

\* get_test_block().blockHashes[0], one character per element.
TestBlockHash ==
    <<"9", "2", "7", "e", "2", "b", "4", "8", "4", "7", "2", "c", "a", "6", "b", "a", "7", "7", "5", "0", "5", "d", "4", "2", "d", "b", "d", "b", "4", "7", "e", "b", "f", "f", "0", "0", "b", "b", "a", "a", "9", "b", "f", "3", "0", "2", "0", "0", "0", "0", "0", "0", "0", "0", "0", "0", "0", "0", "0", "0", "0", "0", "0", "0">>

\* get_test_block().prevBlockHash.
TestPrevBlockHash ==
    <<"5", "9", "a", "9", "0", "c", "7", "7", "1", "a", "9", "e", "8", "4", "e", "9", "3", "7", "2", "b", "0", "b", "2", "2", "3", "4", "8", "5", "2", "7", "3", "a", "1", "9", "b", "a", "3", "e", "0", "f", "f", "c", "9", "0", "0", "5", "0", "0", "0", "0", "0", "0", "0", "0", "0", "0", "0", "0", "0", "0", "0", "0", "0", "0">>

\* Other headers given to the checker.  All but the last ones keep the version,
\* merkle root and time of TestHeader; a nonce was searched where the hash has to
\* have a property.
OtherHeaders ==
    <<
      \* 1: block 2 of the chain: previous hash = hash of block 1, bits 0x22000020 (target 2^253), hash below the target
      <<0, 96, 0, 32, 146, 126, 43, 72, 71, 44, 166, 186, 119, 80, 93, 66, 219, 219, 71, 235,
        255, 0, 187, 170, 155, 243, 2, 0, 0, 0, 0, 0, 0, 0, 0, 0, 231, 201, 83, 209,
        111, 131, 58, 82, 228, 36, 108, 45, 229, 184, 9, 239, 35, 45, 16, 216, 248, 78, 41, 38,
        6, 253, 18, 250, 45, 11, 32, 9, 70, 45, 60, 97, 32, 0, 0, 34, 1, 0, 0, 0>>,
      \* 2: block 3 of the chain: previous hash = hash of block 2, bits 0x22000020 (target 2^253), hash below the target
      <<0, 96, 0, 32, 233, 251, 184, 70, 38, 144, 156, 235, 61, 9, 186, 252, 118, 9, 157, 137,
        202, 210, 255, 240, 11, 72, 135, 123, 123, 147, 90, 233, 193, 188, 30, 24, 231, 201, 83, 209,
        111, 131, 58, 82, 228, 36, 108, 45, 229, 184, 9, 239, 35, 45, 16, 216, 248, 78, 41, 38,
        6, 253, 18, 250, 45, 11, 32, 9, 70, 45, 60, 97, 32, 0, 0, 34, 1, 0, 0, 0>>,
      \* 3: block 4 of the chain: previous hash = hash of block 3, bits 0x22000020 (target 2^253), hash below the target
      <<0, 96, 0, 32, 179, 178, 236, 28, 27, 125, 35, 222, 212, 254, 123, 41, 29, 251, 97, 91,
        193, 137, 155, 140, 196, 97, 30, 191, 242, 145, 173, 85, 220, 243, 97, 28, 231, 201, 83, 209,
        111, 131, 58, 82, 228, 36, 108, 45, 229, 184, 9, 239, 35, 45, 16, 216, 248, 78, 41, 38,
        6, 253, 18, 250, 45, 11, 32, 9, 70, 45, 60, 97, 32, 0, 0, 34, 3, 0, 0, 0>>,
      \* 4: block 5 of the chain: previous hash = hash of block 4, bits 0x22000020 (target 2^253), hash below the target
      <<0, 96, 0, 32, 115, 247, 143, 172, 243, 141, 15, 23, 37, 31, 216, 191, 214, 65, 173, 122,
        178, 147, 68, 59, 132, 75, 85, 150, 75, 73, 33, 64, 186, 210, 157, 14, 231, 201, 83, 209,
        111, 131, 58, 82, 228, 36, 108, 45, 229, 184, 9, 239, 35, 45, 16, 216, 248, 78, 41, 38,
        6, 253, 18, 250, 45, 11, 32, 9, 70, 45, 60, 97, 32, 0, 0, 34, 9, 0, 0, 0>>,
      \* 5: bits 0x22000001 (target 2^248); the last byte of its hash is not 0, so the hash is above the target
      <<0, 96, 0, 32, 89, 169, 12, 119, 26, 158, 132, 233, 55, 43, 11, 34, 52, 133, 39, 58,
        25, 186, 62, 15, 252, 144, 5, 0, 0, 0, 0, 0, 0, 0, 0, 0, 231, 201, 83, 209,
        111, 131, 58, 82, 228, 36, 108, 45, 229, 184, 9, 239, 35, 45, 16, 216, 248, 78, 41, 38,
        6, 253, 18, 250, 45, 11, 32, 9, 70, 45, 60, 97, 1, 0, 0, 34, 0, 0, 0, 0>>,
      \* 6: bits 0x22000001 (target 2^248); hash below the target
      <<0, 96, 0, 32, 89, 169, 12, 119, 26, 158, 132, 233, 55, 43, 11, 34, 52, 133, 39, 58,
        25, 186, 62, 15, 252, 144, 5, 0, 0, 0, 0, 0, 0, 0, 0, 0, 231, 201, 83, 209,
        111, 131, 58, 82, 228, 36, 108, 45, 229, 184, 9, 239, 35, 45, 16, 216, 248, 78, 41, 38,
        6, 253, 18, 250, 45, 11, 32, 9, 70, 45, 60, 97, 1, 0, 0, 34, 120, 0, 0, 0>>,
      \* 7: bits 0x22000040 (target 2^254, above (MODULUS-1)/2); hash below the target
      <<0, 96, 0, 32, 89, 169, 12, 119, 26, 158, 132, 233, 55, 43, 11, 34, 52, 133, 39, 58,
        25, 186, 62, 15, 252, 144, 5, 0, 0, 0, 0, 0, 0, 0, 0, 0, 231, 201, 83, 209,
        111, 131, 58, 82, 228, 36, 108, 45, 229, 184, 9, 239, 35, 45, 16, 216, 248, 78, 41, 38,
        6, 253, 18, 250, 45, 11, 32, 9, 70, 45, 60, 97, 64, 0, 0, 34, 1, 0, 0, 0>>,
      \* 8: bits 0x23000001 (target 2^256, above MODULUS)
      <<0, 96, 0, 32, 89, 169, 12, 119, 26, 158, 132, 233, 55, 43, 11, 34, 52, 133, 39, 58,
        25, 186, 62, 15, 252, 144, 5, 0, 0, 0, 0, 0, 0, 0, 0, 0, 231, 201, 83, 209,
        111, 131, 58, 82, 228, 36, 108, 45, 229, 184, 9, 239, 35, 45, 16, 216, 248, 78, 41, 38,
        6, 253, 18, 250, 45, 11, 32, 9, 70, 45, 60, 97, 1, 0, 0, 35, 0, 0, 0, 0>>,
      \* 9: bits 0x22000020 (target 2^253); hash below the target, first byte of the hash is 00
      <<0, 96, 0, 32, 89, 169, 12, 119, 26, 158, 132, 233, 55, 43, 11, 34, 52, 133, 39, 58,
        25, 186, 62, 15, 252, 144, 5, 0, 0, 0, 0, 0, 0, 0, 0, 0, 231, 201, 83, 209,
        111, 131, 58, 82, 228, 36, 108, 45, 229, 184, 9, 239, 35, 45, 16, 216, 248, 78, 41, 38,
        6, 253, 18, 250, 45, 11, 32, 9, 70, 45, 60, 97, 32, 0, 0, 34, 193, 9, 0, 0>>,
      \* 10: bits exponent 29, mantissa 0x00ffff
      <<0, 96, 0, 32, 89, 169, 12, 119, 26, 158, 132, 233, 55, 43, 11, 34, 52, 133, 39, 58,
        25, 186, 62, 15, 252, 144, 5, 0, 0, 0, 0, 0, 0, 0, 0, 0, 231, 201, 83, 209,
        111, 131, 58, 82, 228, 36, 108, 45, 229, 184, 9, 239, 35, 45, 16, 216, 248, 78, 41, 38,
        6, 253, 18, 250, 45, 11, 32, 9, 70, 45, 60, 97, 255, 255, 0, 29, 0, 0, 0, 0>>,
      \* 11: bits exponent 3, mantissa 0x123456
      <<0, 96, 0, 32, 89, 169, 12, 119, 26, 158, 132, 233, 55, 43, 11, 34, 52, 133, 39, 58,
        25, 186, 62, 15, 252, 144, 5, 0, 0, 0, 0, 0, 0, 0, 0, 0, 231, 201, 83, 209,
        111, 131, 58, 82, 228, 36, 108, 45, 229, 184, 9, 239, 35, 45, 16, 216, 248, 78, 41, 38,
        6, 253, 18, 250, 45, 11, 32, 9, 70, 45, 60, 97, 86, 52, 18, 3, 0, 0, 0, 0>>,
      \* 12: bits exponent 4, mantissa 0x000001
      <<0, 96, 0, 32, 89, 169, 12, 119, 26, 158, 132, 233, 55, 43, 11, 34, 52, 133, 39, 58,
        25, 186, 62, 15, 252, 144, 5, 0, 0, 0, 0, 0, 0, 0, 0, 0, 231, 201, 83, 209,
        111, 131, 58, 82, 228, 36, 108, 45, 229, 184, 9, 239, 35, 45, 16, 216, 248, 78, 41, 38,
        6, 253, 18, 250, 45, 11, 32, 9, 70, 45, 60, 97, 1, 0, 0, 4, 0, 0, 0, 0>>,
      \* 13: bits exponent 32, mantissa 0x7fffff
      <<0, 96, 0, 32, 89, 169, 12, 119, 26, 158, 132, 233, 55, 43, 11, 34, 52, 133, 39, 58,
        25, 186, 62, 15, 252, 144, 5, 0, 0, 0, 0, 0, 0, 0, 0, 0, 231, 201, 83, 209,
        111, 131, 58, 82, 228, 36, 108, 45, 229, 184, 9, 239, 35, 45, 16, 216, 248, 78, 41, 38,
        6, 253, 18, 250, 45, 11, 32, 9, 70, 45, 60, 97, 255, 255, 127, 32, 0, 0, 0, 0>>,
      \* 14: bits exponent 255, mantissa 0xffffff
      <<0, 96, 0, 32, 89, 169, 12, 119, 26, 158, 132, 233, 55, 43, 11, 34, 52, 133, 39, 58,
        25, 186, 62, 15, 252, 144, 5, 0, 0, 0, 0, 0, 0, 0, 0, 0, 231, 201, 83, 209,
        111, 131, 58, 82, 228, 36, 108, 45, 229, 184, 9, 239, 35, 45, 16, 216, 248, 78, 41, 38,
        6, 253, 18, 250, 45, 11, 32, 9, 70, 45, 60, 97, 255, 255, 255, 255, 0, 0, 0, 0>>,
      \* 15: bits exponent 128, mantissa 0x0f48e4
      <<0, 96, 0, 32, 89, 169, 12, 119, 26, 158, 132, 233, 55, 43, 11, 34, 52, 133, 39, 58,
        25, 186, 62, 15, 252, 144, 5, 0, 0, 0, 0, 0, 0, 0, 0, 0, 231, 201, 83, 209,
        111, 131, 58, 82, 228, 36, 108, 45, 229, 184, 9, 239, 35, 45, 16, 216, 248, 78, 41, 38,
        6, 253, 18, 250, 45, 11, 32, 9, 70, 45, 60, 97, 228, 72, 15, 128, 0, 0, 0, 0>>,
      \* 16: bits exponent 29, mantissa 0x000000
      <<0, 96, 0, 32, 89, 169, 12, 119, 26, 158, 132, 233, 55, 43, 11, 34, 52, 133, 39, 58,
        25, 186, 62, 15, 252, 144, 5, 0, 0, 0, 0, 0, 0, 0, 0, 0, 231, 201, 83, 209,
        111, 131, 58, 82, 228, 36, 108, 45, 229, 184, 9, 239, 35, 45, 16, 216, 248, 78, 41, 38,
        6, 253, 18, 250, 45, 11, 32, 9, 70, 45, 60, 97, 0, 0, 0, 29, 0, 0, 0, 0>>,
      \* 17: bits exponent 0, mantissa 0x00ffff
      <<0, 96, 0, 32, 89, 169, 12, 119, 26, 158, 132, 233, 55, 43, 11, 34, 52, 133, 39, 58,
        25, 186, 62, 15, 252, 144, 5, 0, 0, 0, 0, 0, 0, 0, 0, 0, 231, 201, 83, 209,
        111, 131, 58, 82, 228, 36, 108, 45, 229, 184, 9, 239, 35, 45, 16, 216, 248, 78, 41, 38,
        6, 253, 18, 250, 45, 11, 32, 9, 70, 45, 60, 97, 255, 255, 0, 0, 0, 0, 0, 0>>,
      \* 18: bits exponent 1, mantissa 0x00ffff
      <<0, 96, 0, 32, 89, 169, 12, 119, 26, 158, 132, 233, 55, 43, 11, 34, 52, 133, 39, 58,
        25, 186, 62, 15, 252, 144, 5, 0, 0, 0, 0, 0, 0, 0, 0, 0, 231, 201, 83, 209,
        111, 131, 58, 82, 228, 36, 108, 45, 229, 184, 9, 239, 35, 45, 16, 216, 248, 78, 41, 38,
        6, 253, 18, 250, 45, 11, 32, 9, 70, 45, 60, 97, 255, 255, 0, 1, 0, 0, 0, 0>>,
      \* 19: bits exponent 2, mantissa 0x00ffff
      <<0, 96, 0, 32, 89, 169, 12, 119, 26, 158, 132, 233, 55, 43, 11, 34, 52, 133, 39, 58,
        25, 186, 62, 15, 252, 144, 5, 0, 0, 0, 0, 0, 0, 0, 0, 0, 231, 201, 83, 209,
        111, 131, 58, 82, 228, 36, 108, 45, 229, 184, 9, 239, 35, 45, 16, 216, 248, 78, 41, 38,
        6, 253, 18, 250, 45, 11, 32, 9, 70, 45, 60, 97, 255, 255, 0, 2, 0, 0, 0, 0>>,
      \* 20: 81 bytes, bits 0x22000001
      <<0, 96, 0, 32, 89, 169, 12, 119, 26, 158, 132, 233, 55, 43, 11, 34, 52, 133, 39, 58,
        25, 186, 62, 15, 252, 144, 5, 0, 0, 0, 0, 0, 0, 0, 0, 0, 231, 201, 83, 209,
        111, 131, 58, 82, 228, 36, 108, 45, 229, 184, 9, 239, 35, 45, 16, 216, 248, 78, 41, 38,
        6, 253, 18, 250, 45, 11, 32, 9, 70, 45, 60, 97, 1, 0, 0, 34, 0, 0, 0, 0,
        0>>,
      \* 21: 79 bytes, bits 0x22000001
      <<0, 96, 0, 32, 89, 169, 12, 119, 26, 158, 132, 233, 55, 43, 11, 34, 52, 133, 39, 58,
        25, 186, 62, 15, 252, 144, 5, 0, 0, 0, 0, 0, 0, 0, 0, 0, 231, 201, 83, 209,
        111, 131, 58, 82, 228, 36, 108, 45, 229, 184, 9, 239, 35, 45, 16, 216, 248, 78, 41, 38,
        6, 253, 18, 250, 45, 11, 32, 9, 70, 45, 60, 97, 1, 0, 0, 34, 0, 0, 0>>,
      \* 22: 76 bytes, bits 0x22000001
      <<0, 96, 0, 32, 89, 169, 12, 119, 26, 158, 132, 233, 55, 43, 11, 34, 52, 133, 39, 58,
        25, 186, 62, 15, 252, 144, 5, 0, 0, 0, 0, 0, 0, 0, 0, 0, 231, 201, 83, 209,
        111, 131, 58, 82, 228, 36, 108, 45, 229, 184, 9, 239, 35, 45, 16, 216, 248, 78, 41, 38,
        6, 253, 18, 250, 45, 11, 32, 9, 70, 45, 60, 97, 1, 0, 0, 34>>,
      \* 23: 75 bytes
      <<0, 96, 0, 32, 89, 169, 12, 119, 26, 158, 132, 233, 55, 43, 11, 34, 52, 133, 39, 58,
        25, 186, 62, 15, 252, 144, 5, 0, 0, 0, 0, 0, 0, 0, 0, 0, 231, 201, 83, 209,
        111, 131, 58, 82, 228, 36, 108, 45, 229, 184, 9, 239, 35, 45, 16, 216, 248, 78, 41, 38,
        6, 253, 18, 250, 45, 11, 32, 9, 70, 45, 60, 97, 1, 0, 0>>,
      \* 24: 36 bytes
      <<0, 96, 0, 32, 89, 169, 12, 119, 26, 158, 132, 233, 55, 43, 11, 34, 52, 133, 39, 58,
        25, 186, 62, 15, 252, 144, 5, 0, 0, 0, 0, 0, 0, 0, 0, 0>>,
      \* 25: 35 bytes
      <<0, 96, 0, 32, 89, 169, 12, 119, 26, 158, 132, 233, 55, 43, 11, 34, 52, 133, 39, 58,
        25, 186, 62, 15, 252, 144, 5, 0, 0, 0, 0, 0, 0, 0, 0>>,
      \* 26: no byte
      <<>>,
      \* 27: previous hash = hash of TestHeader, bits 0x22000040 (target 2^254, above (MODULUS-1)/2); hash below the target
      <<0, 96, 0, 32, 146, 126, 43, 72, 71, 44, 166, 186, 119, 80, 93, 66, 219, 219, 71, 235,
        255, 0, 187, 170, 155, 243, 2, 0, 0, 0, 0, 0, 0, 0, 0, 0, 231, 201, 83, 209,
        111, 131, 58, 82, 228, 36, 108, 45, 229, 184, 9, 239, 35, 45, 16, 216, 248, 78, 41, 38,
        6, 253, 18, 250, 45, 11, 32, 9, 70, 45, 60, 97, 64, 0, 0, 34, 0, 0, 0, 0>>
    >>

\* The SHA-256 of the SHA-256 of each of OtherHeaders, in the same order.
OtherDigests ==
    <<
      <<233, 251, 184, 70, 38, 144, 156, 235, 61, 9, 186, 252, 118, 9, 157, 137,
        202, 210, 255, 240, 11, 72, 135, 123, 123, 147, 90, 233, 193, 188, 30, 24>>,
      <<179, 178, 236, 28, 27, 125, 35, 222, 212, 254, 123, 41, 29, 251, 97, 91,
        193, 137, 155, 140, 196, 97, 30, 191, 242, 145, 173, 85, 220, 243, 97, 28>>,
      <<115, 247, 143, 172, 243, 141, 15, 23, 37, 31, 216, 191, 214, 65, 173, 122,
        178, 147, 68, 59, 132, 75, 85, 150, 75, 73, 33, 64, 186, 210, 157, 14>>,
      <<34, 112, 194, 71, 189, 212, 138, 81, 111, 37, 218, 197, 179, 251, 17, 181,
        42, 87, 45, 148, 24, 193, 173, 104, 78, 166, 123, 6, 201, 113, 19, 23>>,
      <<147, 164, 192, 118, 231, 171, 194, 206, 7, 48, 206, 178, 95, 48, 134, 185,
        222, 30, 168, 179, 157, 144, 72, 55, 30, 50, 143, 33, 64, 146, 231, 193>>,
      <<131, 90, 52, 179, 117, 224, 232, 30, 8, 105, 199, 3, 145, 240, 186, 191,
        53, 14, 18, 22, 47, 24, 27, 34, 41, 128, 3, 217, 21, 165, 13, 0>>,
      <<133, 209, 190, 38, 98, 92, 174, 73, 187, 70, 2, 157, 42, 75, 5, 64,
        233, 183, 132, 181, 243, 107, 193, 194, 90, 254, 106, 109, 238, 171, 165, 22>>,
      <<100, 64, 147, 32, 130, 171, 83, 15, 37, 10, 22, 170, 115, 95, 72, 46,
        195, 4, 248, 58, 32, 190, 57, 105, 31, 128, 138, 163, 102, 142, 98, 57>>,
      <<0, 40, 143, 101, 52, 222, 40, 194, 92, 152, 64, 116, 158, 253, 155, 19,
        5, 133, 122, 20, 38, 190, 198, 252, 144, 191, 189, 245, 134, 183, 187, 30>>,
      <<102, 21, 99, 100, 119, 8, 57, 221, 210, 237, 3, 4, 96, 121, 75, 184,
        66, 251, 157, 248, 227, 54, 148, 48, 0, 32, 76, 72, 55, 241, 21, 66>>,
      <<130, 98, 82, 156, 210, 74, 177, 156, 130, 76, 69, 232, 14, 172, 219, 100,
        242, 99, 136, 199, 213, 15, 139, 172, 110, 6, 233, 233, 74, 106, 193, 108>>,
      <<88, 3, 97, 18, 142, 34, 78, 223, 220, 57, 212, 128, 247, 84, 112, 162,
        54, 15, 75, 171, 48, 222, 206, 32, 95, 38, 50, 242, 186, 247, 171, 115>>,
      <<49, 243, 55, 91, 222, 170, 67, 196, 90, 102, 5, 124, 250, 18, 149, 185,
        174, 107, 80, 36, 219, 53, 67, 92, 188, 216, 250, 243, 168, 76, 157, 226>>,
      <<56, 152, 23, 79, 82, 83, 154, 121, 163, 174, 35, 4, 225, 110, 235, 169,
        0, 146, 66, 31, 117, 104, 235, 10, 29, 42, 199, 15, 253, 200, 177, 247>>,
      <<99, 33, 217, 143, 180, 169, 218, 88, 206, 194, 152, 163, 230, 213, 16, 181,
        232, 236, 108, 163, 227, 249, 87, 170, 93, 64, 240, 40, 124, 157, 103, 114>>,
      <<100, 154, 236, 78, 110, 116, 192, 195, 45, 247, 28, 142, 194, 21, 137, 18,
        162, 251, 18, 30, 32, 179, 81, 189, 112, 58, 118, 4, 35, 192, 209, 138>>,
      <<91, 125, 69, 110, 211, 246, 10, 153, 10, 222, 247, 5, 130, 200, 184, 116,
        168, 236, 180, 145, 37, 35, 106, 43, 200, 221, 220, 20, 32, 143, 231, 246>>,
      <<209, 203, 132, 45, 129, 253, 97, 239, 183, 100, 42, 237, 99, 164, 102, 17,
        144, 235, 5, 163, 246, 3, 123, 252, 218, 32, 172, 185, 73, 141, 61, 192>>,
      <<29, 2, 231, 147, 234, 240, 244, 90, 172, 175, 34, 241, 164, 46, 126, 228,
        9, 123, 104, 14, 202, 137, 115, 94, 153, 96, 96, 63, 103, 62, 220, 104>>,
      <<224, 176, 75, 140, 128, 89, 114, 4, 232, 4, 255, 167, 99, 188, 232, 194,
        149, 201, 170, 195, 148, 25, 92, 65, 116, 131, 78, 107, 53, 203, 205, 88>>,
      <<170, 73, 168, 255, 158, 63, 33, 243, 108, 242, 232, 6, 185, 133, 207, 100,
        225, 24, 128, 4, 95, 255, 235, 245, 226, 63, 66, 46, 249, 234, 188, 169>>,
      <<6, 131, 141, 57, 47, 72, 179, 24, 13, 142, 51, 106, 20, 239, 71, 174,
        163, 124, 159, 11, 149, 108, 175, 81, 245, 134, 2, 76, 44, 13, 241, 227>>,
      <<233, 10, 45, 220, 92, 7, 122, 45, 112, 123, 22, 37, 24, 116, 224, 64,
        107, 204, 125, 56, 236, 20, 190, 199, 183, 144, 53, 173, 63, 220, 206, 145>>,
      <<172, 209, 104, 82, 135, 237, 93, 138, 160, 180, 97, 137, 247, 20, 71, 155,
        68, 202, 44, 162, 28, 50, 99, 78, 5, 120, 7, 127, 197, 50, 252, 182>>,
      <<247, 75, 103, 117, 98, 44, 154, 206, 36, 66, 227, 63, 108, 66, 215, 14,
        38, 133, 77, 141, 66, 46, 19, 105, 150, 105, 224, 198, 141, 228, 115, 37>>,
      <<93, 246, 224, 226, 118, 19, 89, 211, 10, 130, 117, 5, 142, 41, 159, 204,
        3, 129, 83, 69, 69, 245, 92, 244, 62, 65, 152, 63, 93, 76, 148, 86>>,
      <<81, 70, 76, 190, 41, 140, 99, 72, 8, 208, 83, 59, 238, 58, 86, 219,
        212, 177, 193, 151, 188, 94, 254, 138, 64, 11, 217, 94, 84, 107, 24, 0>>
    >>

\* The values a changed header byte takes: the old value xor one of these.
FlipMasks == <<1, 128, 255>>

\* FlipDigests[m][i]: the SHA-256 of the SHA-256 of TestHeader with byte i (1-based)
\* xor FlipMasks[m].
FlipDigests ==
    <<
      <<
        <<143, 12, 235, 139, 141, 194, 247, 56, 6, 219, 248, 41, 180, 73, 163, 58,
          199, 177, 22, 97, 201, 134, 3, 103, 11, 167, 212, 59, 110, 183, 96, 245>>,
        <<130, 70, 90, 132, 187, 112, 144, 139, 170, 190, 135, 173, 211, 170, 50, 101,
          217, 190, 62, 54, 112, 85, 113, 28, 48, 203, 206, 197, 116, 188, 47, 151>>,
        <<130, 155, 251, 93, 225, 243, 1, 180, 76, 167, 15, 215, 79, 207, 222, 190,
          48, 154, 86, 6, 217, 89, 116, 21, 136, 20, 211, 208, 6, 181, 20, 114>>,
        <<170, 130, 145, 101, 78, 151, 17, 235, 55, 118, 151, 185, 110, 153, 107, 166,
          214, 161, 139, 43, 14, 95, 171, 59, 205, 68, 5, 50, 50, 79, 141, 165>>,
        <<11, 132, 54, 221, 202, 128, 70, 220, 203, 170, 99, 111, 191, 123, 128, 96,
          220, 244, 39, 62, 162, 25, 202, 122, 240, 170, 181, 4, 250, 83, 144, 149>>,
        <<211, 191, 25, 211, 21, 150, 122, 80, 165, 15, 18, 103, 173, 164, 181, 217,
          131, 155, 111, 161, 246, 54, 112, 241, 20, 216, 97, 136, 211, 204, 41, 122>>,
        <<212, 192, 7, 172, 254, 114, 120, 72, 59, 33, 18, 73, 239, 91, 23, 218,
          216, 155, 12, 57, 77, 107, 181, 75, 221, 2, 163, 13, 89, 124, 108, 87>>,
        <<99, 15, 167, 89, 22, 58, 195, 42, 215, 54, 57, 12, 235, 8, 202, 69,
          197, 46, 86, 217, 161, 69, 113, 240, 10, 239, 207, 78, 215, 167, 151, 104>>,
        <<217, 14, 162, 61, 89, 61, 14, 219, 177, 128, 26, 247, 178, 235, 204, 88,
          61, 192, 61, 26, 33, 140, 59, 54, 144, 59, 87, 53, 83, 28, 42, 27>>,
        <<205, 66, 19, 131, 106, 119, 255, 109, 126, 205, 25, 193, 205, 152, 91, 15,
          78, 196, 162, 214, 247, 96, 249, 104, 145, 175, 167, 228, 40, 224, 231, 122>>,
        <<110, 55, 64, 2, 21, 145, 228, 242, 97, 91, 233, 232, 223, 160, 113, 0,
          36, 189, 190, 12, 253, 214, 225, 174, 252, 42, 233, 237, 81, 182, 160, 126>>,
        <<45, 162, 71, 70, 218, 65, 61, 161, 140, 12, 38, 74, 232, 75, 193, 211,
          57, 162, 95, 174, 96, 56, 52, 243, 118, 70, 119, 47, 55, 150, 186, 200>>,
        <<46, 219, 195, 116, 24, 161, 168, 37, 17, 15, 227, 181, 177, 1, 121, 205,
          228, 211, 249, 90, 88, 252, 241, 216, 222, 210, 231, 223, 17, 62, 166, 213>>,
        <<128, 88, 137, 197, 127, 88, 113, 113, 36, 8, 221, 20, 107, 128, 250, 146,
          190, 208, 211, 26, 132, 126, 251, 28, 233, 103, 187, 175, 80, 148, 56, 34>>,
        <<84, 232, 136, 75, 60, 124, 241, 131, 57, 181, 64, 0, 240, 16, 84, 77,
          245, 155, 23, 238, 217, 179, 19, 14, 11, 229, 136, 173, 49, 253, 97, 177>>,
        <<22, 140, 77, 195, 156, 122, 29, 24, 204, 230, 87, 69, 243, 113, 179, 126,
          67, 113, 97, 252, 158, 228, 76, 22, 12, 77, 129, 196, 165, 156, 23, 245>>,
        <<230, 195, 164, 162, 18, 196, 103, 200, 250, 111, 235, 170, 72, 115, 198, 166,
          78, 149, 74, 108, 255, 225, 192, 27, 186, 53, 95, 1, 146, 77, 47, 204>>,
        <<112, 33, 24, 14, 176, 240, 9, 209, 110, 2, 132, 180, 139, 101, 162, 15,
          94, 236, 157, 199, 189, 191, 238, 103, 176, 5, 198, 219, 196, 106, 201, 243>>,
        <<86, 79, 168, 54, 115, 189, 184, 149, 145, 174, 75, 104, 187, 235, 181, 193,
          53, 198, 159, 127, 234, 132, 83, 25, 148, 198, 218, 34, 101, 158, 5, 115>>,
        <<99, 107, 43, 214, 155, 243, 105, 84, 38, 165, 244, 211, 203, 80, 4, 65,
          84, 196, 233, 152, 128, 28, 143, 138, 230, 198, 101, 134, 216, 134, 127, 93>>,
        <<109, 110, 250, 217, 52, 46, 195, 176, 119, 65, 76, 110, 1, 196, 233, 238,
          227, 160, 247, 176, 103, 187, 136, 184, 149, 86, 180, 239, 152, 59, 47, 227>>,
        <<209, 100, 98, 118, 114, 241, 210, 189, 179, 185, 180, 73, 157, 163, 234, 23,
          37, 21, 127, 249, 140, 117, 104, 210, 167, 242, 190, 193, 146, 156, 120, 211>>,
        <<117, 145, 151, 226, 54, 168, 52, 72, 99, 179, 213, 100, 36, 94, 73, 3,
          183, 233, 221, 133, 130, 75, 212, 18, 60, 2, 105, 98, 83, 77, 255, 97>>,
        <<23, 160, 140, 211, 43, 189, 194, 36, 144, 246, 198, 190, 1, 191, 76, 145,
          222, 132, 65, 15, 159, 9, 112, 141, 239, 242, 203, 151, 203, 29, 210, 72>>,
        <<255, 83, 83, 224, 130, 50, 28, 140, 234, 81, 23, 131, 222, 157, 62, 61,
          201, 174, 126, 28, 95, 124, 39, 244, 126, 185, 118, 137, 156, 165, 29, 156>>,
        <<110, 158, 241, 44, 50, 250, 230, 134, 36, 185, 247, 231, 200, 52, 219, 149,
          109, 248, 88, 40, 145, 190, 194, 254, 123, 81, 244, 59, 158, 234, 94, 71>>,
        <<239, 134, 241, 147, 165, 174, 38, 185, 174, 205, 216, 96, 57, 147, 10, 182,
          112, 62, 147, 37, 77, 36, 9, 253, 62, 142, 135, 175, 117, 70, 251, 204>>,
        <<20, 75, 218, 153, 155, 92, 21, 208, 83, 13, 162, 70, 223, 83, 180, 219,
          188, 185, 36, 211, 162, 108, 186, 46, 203, 213, 65, 186, 142, 8, 198, 91>>,
        <<150, 110, 130, 15, 69, 88, 3, 65, 122, 88, 235, 113, 10, 49, 162, 134,
          32, 149, 252, 84, 117, 199, 164, 184, 41, 83, 184, 26, 217, 232, 231, 6>>,
        <<206, 51, 158, 63, 90, 87, 96, 80, 236, 79, 62, 14, 185, 94, 90, 197,
          114, 24, 206, 32, 131, 98, 114, 170, 238, 113, 92, 205, 71, 72, 154, 68>>,
        <<80, 204, 45, 179, 216, 46, 110, 99, 63, 95, 158, 77, 21, 11, 80, 161,
          116, 250, 138, 170, 103, 92, 31, 5, 191, 36, 83, 183, 149, 133, 40, 53>>,
        <<106, 3, 222, 7, 22, 227, 211, 23, 11, 107, 33, 86, 195, 54, 187, 92,
          228, 146, 229, 213, 58, 144, 227, 203, 15, 94, 174, 213, 183, 233, 43, 152>>,
        <<2, 187, 36, 185, 103, 195, 202, 24, 87, 231, 20, 60, 204, 129, 99, 85,
          37, 33, 171, 193, 71, 124, 113, 16, 149, 55, 122, 205, 95, 36, 108, 112>>,
        <<9, 98, 194, 121, 11, 194, 177, 23, 146, 157, 134, 137, 242, 29, 125, 114,
          131, 36, 165, 55, 246, 12, 76, 102, 176, 50, 13, 25, 63, 38, 211, 205>>,
        <<159, 228, 143, 156, 11, 20, 72, 3, 251, 211, 84, 6, 37, 221, 161, 169,
          26, 203, 126, 6, 62, 210, 216, 77, 242, 89, 199, 235, 194, 226, 138, 51>>,
        <<150, 51, 169, 11, 51, 118, 185, 172, 160, 228, 123, 125, 193, 211, 41, 179,
          145, 102, 116, 177, 152, 96, 235, 238, 156, 230, 8, 236, 29, 40, 248, 212>>,
        <<0, 140, 249, 183, 56, 180, 20, 226, 49, 169, 16, 46, 244, 42, 173, 85,
          153, 192, 15, 75, 43, 216, 142, 33, 119, 73, 96, 225, 0, 249, 173, 164>>,
        <<171, 252, 190, 56, 57, 4, 34, 101, 53, 76, 18, 25, 160, 67, 55, 252,
          46, 213, 66, 86, 21, 162, 15, 161, 18, 18, 213, 95, 232, 202, 39, 30>>,
        <<225, 45, 234, 211, 239, 255, 202, 172, 158, 243, 254, 237, 68, 58, 180, 21,
          240, 121, 190, 72, 49, 252, 80, 142, 103, 112, 174, 167, 202, 40, 95, 170>>,
        <<57, 88, 202, 222, 215, 215, 88, 113, 239, 83, 87, 102, 248, 207, 47, 239,
          12, 113, 65, 136, 38, 249, 236, 206, 109, 40, 136, 43, 14, 205, 15, 169>>,
        <<197, 103, 4, 63, 253, 220, 130, 40, 84, 125, 173, 88, 175, 61, 158, 140,
          122, 40, 255, 232, 64, 177, 210, 202, 40, 181, 158, 208, 130, 74, 113, 195>>,
        <<104, 188, 232, 34, 184, 125, 206, 129, 211, 95, 196, 38, 255, 148, 75, 193,
          21, 176, 159, 92, 182, 201, 214, 120, 10, 149, 80, 217, 112, 207, 219, 97>>,
        <<253, 103, 197, 231, 46, 95, 203, 198, 57, 211, 242, 86, 40, 2, 0, 252,
          99, 241, 177, 195, 79, 138, 244, 132, 213, 2, 130, 16, 147, 236, 165, 114>>,
        <<119, 149, 195, 108, 165, 134, 129, 226, 252, 7, 105, 63, 40, 152, 224, 77,
          25, 125, 109, 246, 109, 248, 232, 178, 217, 177, 47, 231, 155, 209, 202, 91>>,
        <<59, 67, 85, 36, 126, 54, 193, 26, 133, 55, 18, 154, 62, 241, 185, 134,
          46, 49, 90, 143, 41, 36, 198, 75, 253, 93, 254, 4, 159, 43, 85, 226>>,
        <<126, 48, 164, 249, 245, 236, 89, 170, 205, 205, 68, 250, 161, 104, 79, 191,
          119, 106, 176, 173, 207, 168, 42, 191, 245, 1, 59, 132, 64, 144, 214, 83>>,
        <<92, 28, 85, 92, 119, 6, 153, 153, 44, 76, 236, 120, 218, 156, 193, 64,
          174, 25, 122, 229, 209, 37, 242, 173, 61, 3, 251, 126, 73, 20, 156, 114>>,
        <<147, 222, 83, 212, 17, 103, 244, 164, 32, 170, 61, 54, 199, 84, 92, 222,
          135, 27, 130, 44, 176, 224, 8, 139, 111, 255, 139, 152, 171, 89, 24, 151>>,
        <<5, 147, 218, 131, 173, 157, 244, 234, 0, 74, 54, 67, 129, 67, 248, 238,
          253, 28, 152, 174, 60, 115, 235, 96, 123, 26, 213, 18, 87, 104, 122, 91>>,
        <<147, 60, 41, 138, 204, 72, 9, 179, 145, 97, 24, 184, 86, 82, 220, 131,
          42, 236, 188, 95, 35, 69, 169, 80, 108, 78, 38, 205, 185, 211, 46, 224>>,
        <<46, 29, 76, 0, 79, 12, 181, 46, 243, 87, 28, 212, 178, 243, 250, 51,
          185, 86, 205, 30, 6, 210, 111, 112, 1, 163, 233, 13, 65, 239, 179, 22>>,
        <<56, 44, 140, 244, 15, 108, 12, 218, 26, 24, 170, 220, 110, 246, 194, 111,
          241, 171, 226, 201, 139, 6, 171, 173, 240, 109, 74, 76, 53, 217, 216, 177>>,
        <<67, 166, 38, 7, 40, 244, 162, 173, 105, 81, 164, 213, 123, 140, 42, 132,
          159, 128, 227, 78, 60, 187, 16, 43, 34, 219, 224, 184, 242, 54, 63, 111>>,
        <<84, 250, 80, 36, 53, 212, 23, 79, 55, 238, 91, 144, 47, 84, 86, 208,
          134, 143, 18, 111, 216, 57, 65, 209, 163, 187, 174, 95, 202, 5, 40, 73>>,
        <<140, 56, 129, 183, 53, 90, 179, 166, 51, 131, 124, 255, 96, 161, 138, 146,
          181, 170, 241, 4, 95, 228, 25, 43, 56, 244, 176, 104, 151, 251, 14, 50>>,
        <<233, 104, 43, 21, 18, 105, 96, 36, 216, 166, 171, 192, 117, 122, 243, 125,
          243, 66, 130, 126, 77, 21, 108, 41, 8, 124, 30, 246, 207, 193, 64, 121>>,
        <<23, 252, 128, 8, 117, 240, 136, 66, 4, 125, 142, 181, 185, 20, 61, 50,
          239, 131, 98, 14, 116, 191, 29, 173, 160, 175, 100, 119, 250, 37, 124, 236>>,
        <<133, 183, 71, 58, 87, 156, 51, 218, 35, 35, 161, 59, 75, 41, 252, 200,
          237, 102, 170, 30, 48, 185, 154, 223, 156, 65, 198, 234, 184, 209, 205, 24>>,
        <<211, 6, 195, 170, 24, 164, 223, 133, 28, 89, 114, 89, 32, 60, 96, 46,
          184, 28, 105, 2, 72, 249, 5, 212, 43, 150, 139, 68, 222, 142, 19, 26>>,
        <<252, 135, 186, 255, 188, 33, 178, 178, 3, 185, 156, 182, 123, 119, 218, 59,
          161, 246, 117, 170, 142, 89, 88, 62, 148, 4, 201, 203, 176, 75, 53, 117>>,
        <<164, 254, 67, 223, 109, 183, 96, 46, 32, 19, 38, 177, 67, 181, 0, 4,
          183, 137, 224, 235, 180, 43, 164, 124, 249, 81, 95, 72, 207, 98, 156, 33>>,
        <<59, 121, 6, 156, 96, 183, 159, 182, 215, 98, 11, 183, 188, 251, 19, 60,
          105, 140, 163, 102, 158, 116, 59, 39, 89, 196, 192, 42, 142, 92, 58, 91>>,
        <<13, 175, 221, 179, 54, 51, 89, 2, 40, 131, 30, 226, 45, 64, 85, 0,
          42, 49, 22, 156, 178, 118, 74, 177, 192, 135, 122, 243, 201, 208, 224, 183>>,
        <<24, 52, 162, 188, 177, 166, 237, 252, 129, 228, 56, 143, 149, 152, 253, 187,
          182, 0, 105, 225, 204, 31, 34, 86, 25, 167, 92, 146, 105, 131, 226, 11>>,
        <<255, 228, 69, 134, 153, 120, 211, 58, 117, 253, 98, 183, 232, 149, 68, 153,
          168, 55, 61, 101, 180, 59, 147, 177, 19, 221, 41, 226, 84, 220, 65, 36>>,
        <<57, 89, 24, 191, 23, 54, 182, 203, 209, 188, 99, 41, 106, 55, 243, 246,
          94, 7, 66, 217, 32, 95, 239, 40, 217, 113, 143, 223, 204, 210, 160, 98>>,
        <<27, 38, 26, 158, 152, 14, 98, 248, 174, 170, 5, 231, 62, 64, 87, 155,
          93, 9, 92, 83, 196, 148, 74, 207, 145, 102, 84, 160, 187, 168, 145, 162>>,
        <<28, 200, 124, 8, 243, 149, 0, 232, 132, 181, 95, 80, 168, 102, 33, 59,
          50, 185, 199, 247, 213, 161, 1, 49, 229, 12, 226, 101, 21, 213, 225, 42>>,
        <<90, 147, 161, 118, 172, 69, 158, 135, 31, 166, 66, 105, 112, 224, 126, 117,
          122, 152, 132, 74, 32, 78, 185, 120, 203, 164, 248, 130, 20, 26, 238, 90>>,
        <<147, 80, 243, 224, 143, 65, 161, 187, 126, 46, 163, 223, 66, 73, 90, 93,
          229, 141, 92, 177, 30, 145, 39, 20, 191, 230, 174, 149, 26, 1, 104, 59>>,
        <<231, 39, 136, 149, 228, 191, 158, 64, 48, 138, 159, 41, 117, 74, 79, 219,
          93, 177, 178, 4, 222, 11, 205, 40, 155, 50, 153, 150, 170, 199, 150, 96>>,
        <<204, 148, 141, 236, 20, 89, 31, 107, 145, 182, 208, 86, 185, 239, 27, 77,
          237, 227, 128, 58, 241, 163, 247, 43, 91, 212, 62, 137, 155, 74, 61, 99>>,
        <<152, 0, 41, 82, 21, 110, 108, 218, 243, 163, 201, 99, 202, 82, 39, 91,
          119, 30, 67, 186, 169, 142, 99, 155, 239, 67, 142, 201, 59, 5, 178, 111>>,
        <<118, 184, 252, 49, 95, 42, 80, 174, 71, 240, 229, 77, 6, 183, 143, 197,
          172, 91, 206, 148, 107, 210, 246, 35, 145, 116, 231, 41, 61, 191, 45, 25>>,
        <<184, 31, 205, 225, 162, 242, 154, 94, 82, 156, 4, 166, 25, 117, 58, 195,
          88, 166, 207, 127, 222, 12, 185, 192, 73, 170, 65, 247, 180, 180, 14, 3>>,
        <<192, 125, 107, 58, 160, 30, 27, 74, 215, 29, 255, 22, 241, 10, 167, 30,
          202, 253, 44, 148, 143, 218, 103, 42, 39, 163, 195, 32, 151, 129, 53, 133>>,
        <<16, 173, 27, 49, 219, 98, 200, 202, 128, 3, 203, 148, 106, 225, 0, 146,
          76, 22, 124, 71, 38, 92, 95, 237, 229, 2, 190, 235, 0, 64, 213, 136>>,
        <<227, 120, 57, 165, 95, 191, 171, 138, 74, 100, 81, 127, 42, 44, 125, 145,
          123, 235, 241, 13, 155, 190, 220, 0, 249, 209, 60, 96, 219, 154, 141, 145>>,
        <<25, 154, 57, 154, 66, 122, 150, 115, 231, 74, 81, 94, 164, 34, 45, 8,
          12, 244, 32, 208, 68, 52, 240, 168, 90, 64, 109, 40, 86, 148, 244, 88>>,
        <<36, 192, 101, 126, 7, 232, 138, 26, 68, 177, 4, 14, 242, 153, 119, 80,
          25, 158, 127, 100, 189, 235, 83, 35, 104, 115, 62, 195, 173, 95, 125, 136>>
      >>,
      <<
        <<46, 43, 83, 174, 235, 231, 104, 150, 19, 66, 79, 195, 225, 183, 146, 151,
          219, 28, 147, 229, 152, 96, 51, 232, 159, 236, 116, 183, 166, 170, 149, 36>>,
        <<25, 46, 94, 8, 150, 219, 80, 18, 110, 168, 107, 145, 187, 239, 212, 174,
          205, 39, 250, 156, 138, 252, 79, 130, 63, 70, 223, 163, 70, 200, 100, 185>>,
        <<29, 219, 244, 58, 209, 211, 218, 95, 214, 66, 160, 146, 103, 111, 74, 173,
          177, 198, 96, 49, 152, 178, 19, 17, 103, 239, 240, 229, 112, 64, 221, 217>>,
        <<135, 10, 113, 213, 112, 93, 122, 158, 131, 221, 236, 151, 211, 101, 152, 67,
          67, 214, 229, 141, 93, 183, 92, 201, 4, 98, 32, 117, 139, 46, 50, 244>>,
        <<143, 247, 183, 12, 17, 174, 140, 219, 223, 213, 62, 76, 46, 20, 156, 102,
          255, 89, 128, 192, 35, 155, 35, 76, 255, 163, 31, 205, 104, 77, 143, 57>>,
        <<243, 59, 57, 5, 152, 61, 174, 151, 103, 122, 23, 3, 85, 17, 62, 212,
          95, 191, 220, 44, 211, 135, 74, 30, 222, 240, 87, 9, 173, 199, 224, 12>>,
        <<38, 88, 33, 191, 181, 236, 107, 210, 250, 209, 30, 34, 101, 238, 49, 16,
          249, 17, 33, 237, 63, 255, 50, 93, 91, 166, 154, 247, 222, 142, 161, 44>>,
        <<208, 92, 189, 93, 221, 195, 86, 211, 62, 200, 129, 113, 151, 24, 176, 21,
          228, 75, 183, 88, 192, 120, 5, 124, 0, 129, 69, 133, 120, 21, 250, 201>>,
        <<35, 203, 73, 142, 45, 177, 64, 160, 217, 37, 151, 154, 200, 193, 102, 175,
          83, 224, 217, 184, 14, 9, 152, 201, 107, 20, 139, 99, 122, 8, 145, 156>>,
        <<150, 105, 61, 208, 14, 162, 114, 198, 106, 121, 231, 181, 114, 140, 124, 14,
          163, 134, 225, 201, 175, 28, 115, 151, 106, 5, 4, 250, 213, 13, 210, 131>>,
        <<252, 108, 189, 244, 113, 123, 237, 222, 103, 253, 217, 48, 3, 67, 170, 23,
          38, 156, 209, 28, 25, 172, 208, 58, 188, 66, 6, 186, 202, 123, 191, 166>>,
        <<216, 121, 187, 95, 145, 34, 148, 31, 120, 102, 134, 44, 25, 91, 117, 53,
          216, 209, 1, 208, 22, 49, 82, 6, 93, 177, 219, 12, 123, 38, 163, 203>>,
        <<146, 252, 225, 177, 143, 195, 81, 10, 153, 194, 27, 62, 10, 137, 75, 112,
          30, 53, 118, 118, 199, 90, 124, 248, 186, 99, 83, 230, 106, 183, 199, 90>>,
        <<113, 72, 193, 244, 163, 140, 7, 92, 46, 134, 167, 102, 41, 17, 224, 210,
          13, 182, 94, 162, 214, 176, 179, 251, 139, 42, 89, 90, 202, 255, 27, 223>>,
        <<201, 130, 26, 77, 234, 216, 172, 100, 46, 10, 106, 65, 143, 169, 245, 6,
          159, 109, 2, 160, 95, 14, 85, 21, 135, 116, 22, 98, 28, 32, 27, 50>>,
        <<49, 31, 142, 174, 223, 125, 206, 69, 139, 191, 188, 65, 64, 14, 37, 192,
          209, 125, 253, 60, 61, 115, 218, 76, 150, 176, 172, 128, 58, 230, 231, 252>>,
        <<243, 174, 99, 86, 234, 204, 239, 177, 73, 235, 217, 93, 72, 133, 186, 117,
          165, 63, 39, 39, 53, 60, 221, 245, 219, 192, 137, 237, 19, 10, 105, 145>>,
        <<159, 78, 118, 31, 203, 251, 233, 179, 23, 3, 7, 79, 88, 190, 239, 93,
          39, 210, 204, 174, 250, 206, 117, 63, 85, 198, 93, 31, 58, 57, 206, 152>>,
        <<150, 218, 148, 154, 74, 0, 19, 115, 210, 7, 78, 95, 148, 222, 179, 198,
          94, 221, 206, 114, 120, 19, 157, 88, 210, 50, 174, 174, 121, 193, 189, 212>>,
        <<110, 71, 181, 17, 139, 250, 199, 77, 216, 207, 80, 157, 34, 222, 90, 107,
          137, 209, 219, 249, 40, 242, 28, 11, 209, 204, 38, 200, 251, 58, 107, 38>>,
        <<228, 175, 202, 141, 5, 97, 23, 98, 29, 9, 115, 215, 227, 144, 52, 190,
          67, 109, 101, 205, 32, 220, 133, 10, 158, 69, 181, 167, 209, 34, 208, 154>>,
        <<110, 37, 176, 77, 115, 70, 103, 74, 204, 84, 216, 150, 4, 78, 96, 175,
          231, 43, 205, 172, 111, 127, 67, 229, 64, 152, 104, 186, 2, 241, 35, 36>>,
        <<105, 196, 41, 1, 166, 70, 49, 25, 105, 34, 32, 214, 173, 207, 142, 223,
          31, 6, 174, 105, 1, 100, 212, 38, 188, 160, 124, 78, 230, 171, 23, 247>>,
        <<109, 57, 12, 29, 214, 0, 191, 174, 212, 17, 11, 121, 48, 177, 26, 53,
          59, 216, 195, 167, 1, 227, 14, 121, 145, 253, 137, 6, 147, 226, 133, 107>>,
        <<193, 160, 43, 146, 130, 226, 53, 22, 170, 141, 59, 6, 2, 175, 140, 156,
          35, 164, 189, 207, 53, 157, 237, 230, 56, 195, 28, 250, 32, 203, 238, 48>>,
        <<103, 17, 136, 160, 113, 125, 88, 10, 175, 45, 84, 165, 21, 140, 115, 4,
          159, 41, 232, 242, 8, 192, 164, 255, 88, 38, 109, 210, 249, 19, 228, 53>>,
        <<61, 182, 128, 203, 172, 52, 52, 19, 204, 161, 111, 141, 221, 215, 98, 58,
          73, 27, 18, 52, 90, 192, 133, 201, 219, 10, 15, 67, 139, 118, 183, 219>>,
        <<172, 99, 189, 179, 64, 206, 45, 221, 222, 190, 168, 251, 201, 8, 68, 5,
          161, 128, 226, 210, 241, 252, 92, 18, 135, 100, 36, 122, 81, 58, 79, 186>>,
        <<135, 12, 208, 192, 12, 168, 181, 194, 124, 150, 170, 170, 97, 108, 126, 195,
          180, 68, 105, 163, 138, 34, 125, 51, 31, 61, 203, 64, 230, 117, 44, 54>>,
        <<67, 146, 79, 47, 210, 183, 105, 85, 130, 81, 186, 117, 168, 137, 138, 82,
          86, 154, 236, 238, 7, 36, 240, 196, 7, 77, 44, 64, 21, 237, 62, 92>>,
        <<227, 39, 190, 187, 135, 9, 97, 95, 247, 94, 241, 10, 145, 231, 24, 1,
          199, 97, 187, 16, 11, 230, 230, 9, 157, 229, 173, 215, 111, 255, 24, 138>>,
        <<181, 136, 185, 174, 109, 39, 154, 139, 79, 0, 119, 52, 211, 168, 142, 40,
          37, 197, 89, 67, 23, 162, 221, 16, 221, 11, 43, 194, 143, 56, 161, 67>>,
        <<170, 238, 209, 170, 46, 35, 132, 197, 150, 238, 139, 36, 60, 58, 255, 117,
          22, 252, 169, 224, 110, 229, 131, 129, 92, 152, 68, 136, 176, 130, 22, 137>>,
        <<196, 20, 244, 55, 209, 49, 95, 230, 213, 218, 215, 28, 58, 237, 225, 165,
          194, 51, 134, 204, 189, 109, 146, 211, 132, 81, 184, 24, 98, 236, 185, 94>>,
        <<204, 30, 244, 107, 178, 174, 145, 199, 224, 35, 16, 52, 158, 1, 107, 207,
          2, 196, 250, 81, 235, 50, 170, 75, 187, 37, 73, 149, 228, 88, 190, 164>>,
        <<239, 71, 157, 90, 240, 115, 254, 205, 25, 133, 165, 215, 247, 193, 45, 18,
          140, 210, 88, 65, 53, 224, 148, 23, 249, 2, 55, 136, 1, 247, 71, 121>>,
        <<194, 64, 242, 117, 174, 235, 202, 4, 34, 103, 198, 197, 146, 7, 139, 107,
          204, 214, 24, 11, 20, 217, 143, 163, 178, 69, 133, 195, 148, 34, 67, 30>>,
        <<42, 227, 49, 226, 220, 151, 93, 206, 111, 150, 66, 146, 61, 176, 70, 112,
          206, 14, 156, 14, 45, 174, 179, 102, 122, 68, 36, 0, 244, 238, 69, 243>>,
        <<65, 115, 85, 100, 26, 161, 39, 248, 252, 187, 7, 252, 153, 61, 199, 97,
          30, 253, 7, 92, 227, 151, 75, 140, 105, 114, 203, 8, 2, 255, 232, 144>>,
        <<233, 24, 49, 197, 54, 235, 35, 249, 114, 137, 190, 185, 95, 249, 127, 80,
          252, 187, 125, 118, 249, 72, 196, 235, 38, 53, 236, 110, 162, 192, 148, 14>>,
        <<254, 5, 189, 190, 65, 116, 98, 240, 171, 0, 53, 233, 104, 124, 203, 245,
          164, 111, 106, 25, 177, 163, 97, 154, 67, 25, 223, 208, 150, 32, 230, 58>>,
        <<93, 74, 131, 243, 210, 47, 240, 30, 116, 185, 44, 178, 52, 132, 197, 228,
          8, 48, 195, 129, 91, 215, 79, 108, 153, 133, 98, 142, 129, 173, 240, 238>>,
        <<91, 192, 26, 144, 39, 249, 75, 84, 199, 251, 87, 74, 76, 63, 245, 153,
          247, 73, 76, 67, 93, 25, 62, 116, 227, 85, 148, 184, 48, 151, 170, 232>>,
        <<166, 240, 62, 239, 159, 122, 110, 227, 73, 211, 88, 42, 105, 96, 31, 190,
          194, 167, 52, 233, 103, 55, 51, 101, 212, 97, 171, 218, 21, 66, 255, 9>>,
        <<150, 44, 9, 21, 63, 202, 185, 144, 88, 52, 182, 143, 94, 179, 200, 85,
          239, 178, 177, 106, 179, 241, 223, 114, 133, 253, 92, 87, 220, 78, 223, 12>>,
        <<46, 242, 131, 16, 18, 188, 69, 18, 47, 218, 157, 224, 17, 96, 9, 191,
          25, 78, 10, 159, 40, 215, 89, 70, 82, 228, 87, 204, 28, 164, 157, 4>>,
        <<52, 113, 138, 214, 100, 171, 157, 98, 39, 220, 178, 235, 95, 137, 33, 133,
          197, 165, 5, 40, 144, 69, 76, 235, 218, 156, 184, 42, 204, 3, 94, 201>>,
        <<53, 216, 75, 190, 45, 218, 51, 2, 179, 148, 134, 90, 242, 240, 125, 130,
          47, 97, 222, 107, 126, 189, 84, 59, 64, 80, 204, 58, 69, 221, 144, 165>>,
        <<19, 110, 83, 242, 42, 123, 67, 26, 38, 248, 13, 215, 34, 110, 231, 180,
          95, 49, 226, 202, 196, 84, 229, 164, 174, 15, 64, 238, 201, 54, 49, 26>>,
        <<129, 228, 34, 164, 222, 115, 129, 9, 2, 225, 212, 121, 77, 88, 240, 166,
          15, 235, 88, 220, 110, 207, 135, 33, 213, 240, 169, 53, 120, 162, 73, 84>>,
        <<135, 96, 111, 191, 23, 218, 226, 210, 21, 224, 114, 239, 161, 217, 156, 242,
          150, 199, 40, 253, 50, 168, 85, 113, 80, 50, 79, 199, 255, 50, 64, 219>>,
        <<15, 136, 143, 69, 38, 135, 40, 183, 214, 36, 200, 48, 123, 208, 105, 111,
          17, 57, 23, 243, 45, 149, 30, 252, 47, 84, 177, 107, 207, 47, 62, 87>>,
        <<42, 246, 105, 239, 166, 228, 83, 24, 105, 207, 216, 85, 59, 211, 217, 231,
          126, 194, 195, 134, 123, 140, 226, 161, 49, 92, 119, 198, 78, 1, 19, 157>>,
        <<145, 240, 102, 13, 209, 86, 68, 11, 154, 49, 49, 231, 237, 28, 150, 89,
          206, 43, 62, 212, 78, 7, 192, 5, 185, 4, 233, 47, 52, 147, 2, 45>>,
        <<39, 116, 10, 37, 60, 129, 31, 169, 162, 31, 233, 8, 22, 31, 65, 35,
          69, 24, 41, 139, 14, 227, 105, 218, 46, 171, 130, 19, 87, 217, 163, 100>>,
        <<19, 145, 109, 68, 48, 130, 144, 200, 15, 255, 18, 113, 209, 122, 205, 90,
          165, 36, 254, 41, 162, 134, 183, 252, 112, 204, 138, 133, 142, 14, 56, 47>>,
        <<134, 138, 184, 196, 59, 124, 66, 135, 220, 10, 38, 245, 174, 166, 223, 28,
          177, 30, 41, 245, 60, 227, 44, 25, 64, 139, 54, 71, 217, 65, 103, 46>>,
        <<207, 109, 107, 159, 206, 115, 121, 9, 245, 166, 8, 180, 124, 213, 22, 45,
          245, 129, 153, 159, 128, 134, 186, 136, 85, 239, 16, 100, 82, 71, 127, 34>>,
        <<78, 85, 82, 199, 94, 115, 214, 216, 73, 105, 111, 247, 174, 152, 50, 148,
          199, 26, 217, 215, 104, 244, 215, 178, 12, 27, 18, 233, 33, 100, 171, 252>>,
        <<135, 133, 50, 145, 23, 134, 34, 73, 173, 92, 87, 76, 60, 227, 198, 178,
          119, 104, 126, 250, 75, 135, 204, 150, 168, 201, 72, 50, 197, 106, 58, 39>>,
        <<132, 124, 64, 213, 45, 75, 73, 70, 181, 237, 112, 142, 234, 43, 169, 43,
          163, 0, 122, 189, 105, 177, 97, 163, 109, 68, 53, 215, 136, 131, 184, 101>>,
        <<215, 11, 122, 183, 145, 162, 252, 37, 66, 21, 24, 109, 102, 115, 112, 207,
          104, 174, 75, 60, 87, 248, 227, 142, 143, 77, 87, 8, 1, 0, 132, 23>>,
        <<255, 120, 148, 51, 62, 144, 65, 141, 127, 148, 38, 10, 140, 44, 234, 152,
          195, 214, 171, 153, 152, 100, 141, 227, 85, 9, 243, 94, 244, 240, 186, 226>>,
        <<12, 45, 172, 253, 43, 222, 14, 181, 84, 218, 66, 214, 67, 93, 196, 157,
          115, 122, 108, 157, 98, 201, 195, 83, 213, 183, 151, 61, 17, 126, 102, 203>>,
        <<163, 83, 185, 220, 3, 164, 194, 32, 226, 122, 81, 98, 206, 31, 131, 189,
          37, 234, 184, 31, 92, 208, 168, 226, 203, 189, 209, 195, 115, 0, 54, 251>>,
        <<111, 90, 42, 54, 236, 50, 194, 123, 214, 197, 211, 81, 82, 169, 207, 189,
          175, 151, 136, 178, 248, 167, 90, 230, 64, 164, 117, 43, 161, 20, 153, 46>>,
        <<21, 220, 189, 79, 154, 112, 193, 62, 244, 228, 111, 149, 139, 119, 122, 245,
          76, 99, 104, 50, 140, 6, 25, 149, 152, 38, 31, 188, 179, 199, 136, 128>>,
        <<150, 179, 89, 157, 254, 103, 184, 86, 227, 170, 74, 188, 175, 176, 254, 176,
          118, 128, 144, 133, 246, 26, 95, 142, 74, 5, 31, 24, 14, 142, 94, 148>>,
        <<16, 235, 5, 176, 165, 189, 250, 193, 83, 181, 58, 187, 45, 89, 238, 90,
          114, 123, 123, 172, 55, 43, 180, 140, 118, 226, 185, 177, 89, 9, 16, 143>>,
        <<66, 238, 231, 176, 89, 255, 220, 98, 208, 40, 196, 108, 207, 92, 235, 120,
          139, 43, 30, 98, 178, 9, 171, 115, 243, 4, 72, 172, 180, 239, 199, 236>>,
        <<206, 208, 178, 148, 189, 219, 217, 11, 247, 52, 39, 76, 100, 241, 88, 163,
          57, 80, 47, 13, 213, 31, 107, 159, 143, 234, 222, 163, 193, 148, 5, 248>>,
        <<81, 230, 97, 141, 245, 223, 99, 147, 13, 221, 57, 45, 82, 108, 154, 54,
          135, 137, 235, 48, 85, 220, 213, 149, 81, 89, 131, 231, 138, 140, 114, 211>>,
        <<145, 186, 28, 205, 58, 56, 159, 89, 38, 32, 60, 241, 117, 136, 8, 245,
          188, 122, 27, 9, 248, 35, 62, 112, 242, 224, 177, 193, 195, 52, 243, 137>>,
        <<55, 248, 207, 178, 179, 183, 216, 191, 55, 189, 37, 235, 214, 119, 150, 234,
          247, 94, 188, 202, 253, 36, 254, 79, 209, 190, 38, 248, 50, 192, 93, 171>>,
        <<10, 171, 212, 156, 240, 120, 85, 182, 115, 178, 173, 225, 242, 203, 131, 14,
          100, 103, 254, 31, 161, 42, 144, 141, 178, 221, 227, 95, 151, 1, 163, 140>>,
        <<11, 101, 251, 146, 240, 167, 31, 131, 12, 190, 118, 44, 115, 151, 51, 4,
          154, 200, 162, 117, 243, 142, 86, 152, 45, 89, 79, 245, 202, 22, 137, 188>>,
        <<12, 216, 53, 77, 62, 238, 196, 245, 151, 86, 46, 158, 146, 32, 45, 135,
          12, 216, 72, 67, 185, 159, 48, 155, 21, 22, 27, 105, 48, 73, 230, 23>>,
        <<213, 191, 158, 152, 29, 33, 143, 63, 47, 253, 91, 26, 79, 101, 119, 148,
          155, 253, 39, 250, 246, 160, 159, 204, 222, 0, 231, 24, 203, 144, 191, 27>>,
        <<167, 223, 23, 232, 10, 87, 193, 108, 179, 7, 244, 27, 203, 78, 203, 16,
          146, 252, 189, 40, 55, 115, 232, 236, 183, 92, 243, 122, 186, 98, 248, 140>>,
        <<23, 158, 8, 130, 189, 126, 205, 229, 2, 171, 160, 219, 55, 192, 199, 12,
          0, 218, 207, 245, 243, 247, 96, 208, 141, 115, 80, 240, 190, 70, 151, 74>>
      >>,
      <<
        <<189, 251, 142, 241, 137, 142, 103, 21, 95, 184, 68, 159, 199, 113, 198, 253,
          145, 79, 252, 224, 5, 47, 226, 112, 214, 163, 149, 18, 163, 108, 202, 165>>,
        <<33, 62, 194, 108, 104, 137, 199, 204, 122, 227, 128, 51, 158, 126, 164, 151,
          154, 114, 10, 247, 248, 184, 233, 248, 55, 208, 43, 42, 147, 142, 39, 157>>,
        <<173, 251, 174, 1, 247, 25, 30, 182, 251, 154, 169, 174, 88, 130, 198, 209,
          84, 189, 147, 163, 165, 39, 75, 40, 111, 207, 67, 127, 2, 227, 226, 19>>,
        <<121, 117, 111, 12, 150, 24, 74, 235, 154, 213, 104, 147, 127, 46, 16, 206,
          105, 123, 25, 243, 244, 204, 230, 217, 215, 59, 59, 84, 115, 162, 17, 140>>,
        <<247, 149, 90, 63, 228, 236, 201, 148, 31, 116, 156, 208, 108, 210, 40, 236,
          78, 43, 158, 215, 32, 128, 226, 220, 1, 234, 217, 113, 122, 145, 46, 172>>,
        <<181, 155, 203, 90, 101, 115, 39, 175, 16, 56, 35, 20, 129, 96, 214, 183,
          245, 228, 62, 245, 148, 27, 18, 58, 244, 150, 239, 224, 228, 87, 146, 200>>,
        <<50, 28, 57, 78, 130, 27, 62, 168, 97, 59, 13, 168, 151, 0, 204, 173,
          114, 141, 58, 181, 247, 30, 223, 89, 96, 169, 228, 54, 54, 40, 56, 171>>,
        <<151, 221, 184, 126, 60, 186, 108, 147, 162, 106, 130, 125, 93, 156, 165, 17,
          206, 115, 155, 17, 161, 93, 91, 100, 51, 16, 89, 88, 150, 163, 211, 132>>,
        <<253, 187, 25, 203, 235, 53, 21, 123, 174, 81, 160, 238, 47, 102, 93, 246,
          66, 32, 27, 184, 243, 189, 176, 34, 70, 192, 127, 85, 101, 53, 115, 33>>,
        <<41, 163, 117, 169, 236, 52, 160, 215, 30, 130, 64, 124, 35, 68, 179, 239,
          49, 128, 229, 247, 15, 49, 184, 246, 230, 53, 210, 222, 193, 226, 208, 79>>,
        <<244, 78, 119, 3, 24, 138, 237, 33, 195, 67, 75, 73, 19, 55, 9, 194,
          44, 159, 141, 67, 255, 177, 227, 183, 63, 44, 145, 208, 1, 88, 13, 133>>,
        <<157, 189, 97, 9, 226, 216, 139, 187, 124, 185, 18, 157, 96, 76, 214, 168,
          58, 73, 162, 118, 170, 133, 116, 72, 122, 55, 237, 40, 148, 194, 223, 66>>,
        <<213, 169, 154, 45, 186, 237, 68, 45, 76, 191, 187, 227, 134, 243, 144, 202,
          96, 7, 181, 153, 214, 227, 51, 106, 252, 72, 102, 204, 62, 1, 145, 59>>,
        <<248, 39, 87, 222, 63, 211, 130, 200, 67, 58, 195, 15, 62, 80, 180, 104,
          225, 69, 90, 255, 231, 255, 8, 135, 165, 231, 119, 159, 150, 31, 71, 146>>,
        <<226, 251, 74, 27, 7, 215, 25, 90, 41, 188, 174, 106, 131, 136, 222, 235,
          46, 150, 11, 142, 192, 5, 231, 162, 35, 140, 105, 31, 248, 44, 255, 82>>,
        <<72, 106, 86, 63, 35, 65, 157, 233, 153, 127, 96, 179, 19, 41, 63, 33,
          193, 18, 121, 154, 46, 153, 76, 136, 223, 55, 116, 41, 97, 225, 71, 45>>,
        <<37, 159, 152, 169, 251, 10, 92, 154, 241, 3, 94, 205, 18, 222, 94, 129,
          24, 35, 221, 124, 251, 48, 109, 65, 49, 175, 198, 62, 243, 100, 106, 43>>,
        <<70, 185, 152, 120, 35, 236, 255, 84, 99, 173, 128, 179, 36, 128, 148, 169,
          16, 117, 45, 240, 140, 127, 35, 166, 12, 165, 130, 150, 165, 8, 255, 172>>,
        <<177, 79, 169, 185, 144, 200, 242, 20, 247, 119, 3, 145, 27, 243, 106, 164,
          39, 21, 222, 161, 235, 202, 5, 154, 152, 136, 151, 124, 124, 223, 82, 244>>,
        <<151, 225, 254, 230, 124, 45, 139, 92, 172, 135, 239, 44, 185, 228, 52, 106,
          112, 203, 90, 96, 164, 229, 41, 84, 101, 238, 18, 29, 139, 151, 198, 20>>,
        <<254, 64, 113, 47, 103, 117, 20, 71, 170, 130, 190, 220, 15, 154, 23, 194,
          37, 180, 218, 161, 213, 207, 140, 232, 26, 200, 56, 132, 74, 168, 74, 126>>,
        <<2, 195, 252, 215, 167, 1, 63, 138, 7, 68, 36, 170, 186, 156, 141, 94,
          233, 169, 44, 54, 211, 194, 243, 3, 92, 196, 196, 88, 168, 166, 40, 180>>,
        <<204, 177, 156, 241, 43, 204, 236, 22, 78, 223, 85, 238, 26, 35, 81, 109,
          71, 137, 241, 109, 28, 29, 135, 31, 149, 185, 8, 121, 54, 14, 102, 232>>,
        <<144, 141, 104, 12, 184, 0, 14, 141, 169, 80, 4, 203, 115, 133, 178, 13,
          238, 195, 229, 75, 250, 61, 102, 149, 129, 180, 33, 55, 13, 130, 145, 202>>,
        <<52, 169, 213, 4, 60, 133, 95, 229, 206, 164, 10, 87, 231, 101, 208, 70,
          181, 149, 18, 102, 212, 33, 61, 35, 114, 224, 184, 192, 241, 60, 255, 46>>,
        <<144, 245, 240, 211, 224, 164, 64, 144, 57, 50, 110, 189, 161, 46, 19, 164,
          187, 93, 13, 70, 82, 137, 223, 138, 24, 81, 177, 97, 73, 53, 64, 46>>,
        <<36, 156, 223, 126, 143, 175, 176, 206, 11, 17, 178, 20, 96, 131, 111, 22,
          124, 36, 177, 214, 173, 14, 138, 37, 83, 250, 210, 162, 214, 84, 161, 90>>,
        <<19, 126, 238, 180, 192, 225, 88, 130, 176, 30, 120, 255, 220, 167, 68, 18,
          110, 84, 95, 57, 223, 171, 85, 34, 155, 21, 11, 147, 29, 74, 153, 233>>,
        <<133, 36, 31, 215, 127, 152, 243, 159, 80, 160, 24, 135, 193, 157, 79, 32,
          59, 146, 153, 33, 234, 137, 242, 131, 188, 113, 73, 152, 209, 157, 235, 4>>,
        <<171, 88, 192, 174, 123, 131, 228, 159, 34, 76, 250, 113, 91, 146, 6, 15,
          114, 41, 132, 144, 233, 81, 52, 114, 15, 55, 35, 88, 245, 237, 7, 112>>,
        <<134, 112, 12, 185, 37, 204, 109, 110, 111, 173, 193, 133, 194, 124, 135, 42,
          228, 8, 139, 225, 213, 242, 222, 146, 25, 140, 36, 231, 122, 81, 127, 114>>,
        <<70, 152, 252, 220, 55, 126, 121, 138, 28, 243, 207, 51, 21, 122, 219, 217,
          156, 82, 210, 72, 63, 244, 15, 146, 88, 240, 187, 159, 181, 29, 235, 219>>,
        <<93, 99, 10, 175, 154, 125, 255, 255, 132, 197, 196, 211, 52, 78, 170, 103,
          105, 97, 252, 0, 241, 180, 8, 63, 99, 5, 64, 23, 35, 131, 173, 132>>,
        <<156, 168, 30, 117, 15, 188, 36, 134, 36, 95, 224, 179, 20, 46, 120, 73,
          250, 29, 132, 69, 146, 225, 218, 194, 126, 157, 59, 185, 109, 193, 200, 16>>,
        <<242, 219, 98, 139, 24, 229, 79, 252, 161, 75, 183, 207, 161, 32, 59, 196,
          114, 82, 108, 218, 209, 34, 239, 16, 169, 165, 25, 177, 185, 149, 224, 245>>,
        <<40, 186, 84, 202, 4, 35, 140, 180, 12, 219, 248, 225, 232, 120, 195, 179,
          87, 136, 121, 157, 194, 82, 33, 89, 21, 218, 141, 249, 147, 211, 45, 226>>,
        <<243, 9, 20, 30, 107, 67, 51, 20, 83, 46, 234, 172, 125, 166, 191, 229,
          34, 42, 143, 50, 247, 89, 86, 113, 20, 44, 28, 99, 187, 67, 124, 131>>,
        <<249, 57, 187, 236, 110, 45, 112, 178, 227, 252, 204, 158, 114, 240, 152, 148,
          53, 71, 201, 16, 179, 143, 26, 84, 84, 232, 158, 227, 166, 136, 18, 186>>,
        <<147, 75, 163, 141, 195, 90, 77, 190, 16, 210, 92, 129, 14, 249, 178, 132,
          246, 126, 21, 130, 10, 246, 145, 188, 247, 78, 200, 224, 138, 57, 247, 10>>,
        <<113, 78, 209, 99, 40, 75, 225, 101, 72, 195, 73, 177, 18, 221, 195, 85,
          110, 40, 237, 41, 53, 253, 97, 224, 135, 238, 23, 221, 145, 109, 181, 228>>,
        <<30, 1, 126, 224, 101, 1, 85, 136, 217, 20, 125, 153, 46, 101, 114, 239,
          106, 209, 166, 233, 44, 10, 108, 178, 238, 136, 89, 45, 65, 49, 15, 9>>,
        <<108, 83, 62, 250, 131, 46, 126, 87, 52, 246, 160, 178, 76, 157, 0, 55,
          118, 121, 219, 120, 214, 166, 203, 26, 212, 94, 150, 74, 86, 110, 241, 125>>,
        <<107, 58, 191, 15, 170, 0, 221, 50, 232, 121, 242, 236, 151, 146, 136, 73,
          242, 67, 74, 232, 40, 192, 122, 86, 4, 147, 27, 35, 222, 157, 92, 34>>,
        <<206, 134, 73, 242, 41, 73, 15, 26, 99, 167, 118, 43, 181, 175, 79, 17,
          55, 9, 252, 126, 73, 6, 74, 251, 136, 135, 63, 232, 34, 60, 47, 98>>,
        <<43, 188, 56, 213, 219, 240, 182, 5, 250, 131, 158, 130, 161, 31, 142, 100,
          238, 95, 96, 228, 56, 18, 84, 134, 80, 148, 89, 155, 159, 110, 75, 108>>,
        <<60, 90, 163, 193, 55, 136, 14, 85, 113, 233, 119, 92, 227, 42, 52, 141,
          25, 178, 108, 20, 91, 45, 24, 133, 21, 124, 129, 104, 178, 149, 157, 246>>,
        <<69, 4, 99, 105, 140, 93, 222, 183, 92, 122, 215, 21, 239, 32, 3, 98,
          101, 7, 99, 190, 211, 148, 121, 188, 20, 69, 243, 49, 210, 98, 231, 161>>,
        <<160, 132, 40, 203, 147, 148, 145, 215, 136, 135, 214, 199, 149, 168, 203, 41,
          115, 35, 8, 93, 110, 105, 76, 69, 209, 249, 244, 178, 73, 139, 201, 19>>,
        <<80, 160, 159, 29, 86, 216, 227, 248, 157, 148, 247, 131, 197, 53, 195, 207,
          183, 109, 59, 36, 136, 121, 62, 151, 239, 93, 239, 191, 146, 27, 0, 111>>,
        <<124, 222, 5, 21, 216, 121, 111, 230, 228, 182, 202, 124, 94, 115, 19, 148,
          251, 165, 213, 8, 71, 240, 14, 203, 53, 68, 128, 199, 52, 195, 138, 221>>,
        <<98, 76, 169, 119, 109, 222, 215, 44, 15, 25, 180, 244, 154, 149, 70, 205,
          38, 84, 195, 203, 110, 149, 145, 140, 255, 107, 224, 217, 150, 223, 148, 57>>,
        <<20, 152, 54, 76, 168, 186, 117, 135, 129, 48, 36, 121, 66, 200, 31, 233,
          229, 14, 10, 58, 22, 207, 205, 106, 127, 210, 228, 102, 205, 243, 134, 61>>,
        <<255, 65, 66, 75, 81, 73, 4, 69, 26, 105, 39, 138, 141, 46, 100, 215,
          155, 162, 120, 241, 171, 232, 220, 176, 203, 17, 60, 114, 160, 225, 196, 134>>,
        <<195, 217, 81, 25, 236, 91, 119, 20, 205, 67, 216, 179, 255, 124, 108, 111,
          216, 38, 117, 103, 146, 195, 232, 143, 31, 62, 230, 60, 21, 104, 215, 12>>,
        <<169, 213, 114, 151, 131, 247, 70, 155, 185, 19, 100, 103, 151, 229, 210, 202,
          179, 41, 166, 51, 108, 85, 253, 178, 166, 127, 201, 219, 211, 129, 188, 53>>,
        <<208, 40, 188, 35, 165, 172, 91, 116, 170, 66, 129, 239, 40, 199, 185, 72,
          208, 86, 36, 248, 178, 100, 172, 113, 174, 78, 158, 120, 134, 66, 73, 175>>,
        <<63, 161, 105, 199, 64, 184, 45, 176, 192, 235, 166, 72, 248, 253, 27, 1,
          171, 183, 169, 93, 149, 231, 117, 172, 132, 105, 104, 77, 189, 2, 193, 84>>,
        <<158, 195, 107, 108, 102, 21, 99, 243, 179, 127, 113, 69, 95, 155, 219, 245,
          38, 130, 145, 249, 67, 17, 163, 149, 132, 45, 9, 249, 102, 13, 241, 34>>,
        <<81, 96, 124, 238, 22, 69, 231, 213, 253, 190, 83, 31, 3, 47, 13, 171,
          252, 102, 194, 83, 133, 142, 151, 136, 173, 111, 41, 161, 222, 206, 223, 227>>,
        <<60, 96, 155, 203, 21, 176, 113, 169, 128, 225, 125, 20, 7, 4, 214, 192,
          95, 94, 8, 96, 127, 153, 219, 168, 33, 33, 34, 65, 85, 228, 141, 129>>,
        <<85, 67, 39, 42, 63, 152, 221, 68, 126, 71, 108, 197, 242, 157, 40, 246,
          121, 98, 99, 91, 203, 135, 72, 58, 219, 197, 62, 188, 80, 203, 172, 30>>,
        <<60, 3, 201, 5, 217, 16, 162, 16, 240, 46, 72, 85, 109, 154, 231, 199,
          174, 42, 5, 56, 234, 121, 40, 128, 70, 99, 123, 233, 245, 64, 29, 89>>,
        <<163, 120, 132, 223, 211, 249, 201, 111, 169, 55, 244, 93, 156, 159, 170, 137,
          232, 86, 21, 201, 219, 50, 225, 191, 161, 246, 37, 170, 163, 132, 236, 54>>,
        <<115, 213, 186, 175, 34, 174, 165, 115, 43, 146, 70, 0, 71, 62, 88, 180,
          107, 38, 20, 36, 94, 42, 47, 159, 236, 177, 72, 181, 137, 160, 90, 251>>,
        <<63, 235, 186, 252, 10, 153, 64, 20, 38, 214, 154, 38, 126, 6, 253, 11,
          171, 85, 164, 27, 227, 115, 162, 60, 226, 102, 252, 191, 33, 83, 233, 202>>,
        <<35, 223, 79, 99, 147, 29, 94, 91, 197, 139, 175, 182, 13, 249, 120, 115,
          19, 134, 254, 155, 106, 99, 55, 143, 7, 113, 54, 233, 84, 190, 115, 169>>,
        <<99, 0, 253, 92, 169, 135, 246, 252, 80, 176, 152, 16, 101, 177, 218, 63,
          208, 80, 196, 144, 59, 180, 106, 252, 89, 106, 253, 127, 52, 161, 155, 36>>,
        <<224, 198, 66, 41, 218, 165, 174, 54, 102, 86, 5, 33, 119, 110, 206, 182,
          48, 227, 224, 251, 137, 242, 44, 36, 138, 110, 244, 28, 176, 33, 201, 130>>,
        <<242, 103, 104, 230, 135, 253, 17, 188, 38, 11, 209, 224, 27, 236, 22, 132,
          190, 160, 175, 22, 110, 193, 189, 178, 253, 95, 229, 207, 171, 86, 20, 221>>,
        <<152, 70, 164, 95, 245, 95, 151, 142, 54, 26, 39, 29, 88, 99, 20, 173,
          179, 9, 130, 7, 3, 97, 107, 157, 24, 202, 152, 170, 203, 134, 158, 5>>,
        <<68, 113, 89, 180, 9, 172, 181, 81, 167, 31, 107, 46, 114, 217, 142, 203,
          221, 12, 37, 255, 85, 3, 191, 89, 119, 32, 149, 105, 158, 200, 216, 103>>,
        <<238, 239, 243, 41, 134, 208, 159, 175, 124, 4, 32, 244, 49, 172, 9, 171,
          14, 124, 96, 87, 5, 218, 249, 108, 251, 197, 191, 88, 192, 20, 216, 74>>,
        <<27, 253, 170, 235, 255, 255, 156, 24, 94, 163, 248, 172, 31, 118, 74, 245,
          54, 71, 253, 180, 63, 127, 215, 137, 55, 90, 50, 117, 29, 245, 106, 184>>,
        <<97, 21, 9, 105, 14, 124, 200, 58, 231, 199, 74, 160, 139, 156, 158, 179,
          244, 117, 251, 165, 130, 186, 69, 214, 63, 156, 134, 228, 15, 96, 88, 79>>,
        <<251, 239, 162, 63, 122, 102, 249, 221, 135, 219, 148, 170, 227, 124, 205, 203,
          85, 193, 208, 55, 44, 215, 167, 128, 30, 163, 191, 252, 66, 74, 102, 183>>,
        <<198, 114, 93, 104, 209, 150, 181, 22, 97, 36, 25, 193, 211, 76, 170, 186,
          185, 18, 174, 118, 247, 83, 169, 200, 248, 160, 11, 247, 160, 86, 205, 100>>,
        <<140, 156, 180, 104, 72, 205, 201, 121, 29, 64, 45, 72, 53, 38, 206, 136,
          200, 46, 243, 214, 184, 207, 6, 119, 197, 254, 166, 42, 249, 152, 185, 240>>,
        <<231, 189, 156, 196, 165, 53, 128, 179, 75, 188, 246, 193, 60, 215, 247, 214,
          15, 83, 16, 119, 211, 6, 43, 204, 108, 252, 66, 196, 107, 91, 162, 27>>,
        <<158, 169, 57, 78, 80, 180, 163, 5, 218, 198, 227, 36, 8, 206, 229, 64,
          219, 253, 91, 4, 19, 252, 219, 249, 164, 62, 82, 205, 119, 113, 45, 241>>,
        <<115, 199, 27, 93, 1, 141, 124, 46, 84, 72, 180, 169, 167, 103, 141, 62,
          106, 151, 144, 195, 95, 138, 177, 17, 212, 54, 124, 140, 211, 144, 16, 158>>
      >>
    >>

\* The number of bits of the modulus (F::MODULUS_BIT_SIZE).
RECURSIVE BitLen(_)
BitLen(n) == IF n = 0 THEN 0 ELSE 1 + BitLen(n \div 2)
MODULUS_BIT_SIZE == 8 * (Len(Trim(MODULUS)) - 1) + BitLen(MODULUS[Len(Trim(MODULUS))])

One == Pad(<<1>>, FpBytes)

(***************************************************************************)
(* ark-r1cs-std gadgets used by the checker, on the values of the          *)
(* variables.                                                              *)
(***************************************************************************)
\* [UInt8]::to_constraint_field: the bytes in chunks of (MODULUS_BIT_SIZE - 1) / 8
\* bytes, each chunk read little-endian as one field element.
to_constraint_field(bytes) ==
    LET max_size == (MODULUS_BIT_SIZE - 1) \div 8
        n == (Len(bytes) + max_size - 1) \div max_size
    IN [j \in 1..n |->
          Pad(SubSeq(bytes, (j - 1) * max_size + 1, Min(j * max_size, Len(bytes))), FpBytes)]

\* FpVar::is_smaller_than_unchecked: the lowest bit of 2 * (a - b).
is_smaller_than_unchecked(a, b) == Bit(FpDouble(FpSub(a, b)), 0) = 1

\* FpVar::enforce_cmp(other, Ordering::Less, false): both sides are constrained to be
\* at most (MODULUS - 1) / 2, and a < b is read from the parity of 2 * (a - b).
enforce_cmp_Less(a, b) ==
    /\ CmpNat(a, MODULUS_MINUS_ONE_DIV_TWO) <= 0
    /\ CmpNat(b, MODULUS_MINUS_ONE_DIV_TWO) <= 0
    /\ is_smaller_than_unchecked(a, b)

(***************************************************************************)
(* Strings of hexadecimal digits (one character per element).              *)
(***************************************************************************)
HexDigits == <<"0", "1", "2", "3", "4", "5", "6", "7", "8", "9",
               "a", "b", "c", "d", "e", "f">>
HexDigitsUpper == <<"0", "1", "2", "3", "4", "5", "6", "7", "8", "9",
                    "A", "B", "C", "D", "E", "F">>

\* The value of a digit, -1 for any other character.
HexVal(c) ==
    IF \E k \in 1..16 : HexDigits[k] = c THEN (CHOOSE k \in 1..16 : HexDigits[k] = c) - 1
    ELSE IF \E k \in 1..16 : HexDigitsUpper[k] = c
         THEN (CHOOSE k \in 1..16 : HexDigitsUpper[k] = c) - 1
    ELSE -1

\* hex::encode.
HexEncode(bytes) ==
    SubSeq([k \in 1..(2 * Len(bytes)) |->
              IF k % 2 = 1 THEN HexDigits[(bytes[(k + 1) \div 2] \div 16) + 1]
              ELSE HexDigits[(bytes[k \div 2] % 16) + 1]],
           1, 2 * Len(bytes))

\* BigUint::from_str_radix(s, 16): one leading "+" is dropped; an empty string, a
\* leading "_" or a character that is no digit is an error (ok = FALSE); "_" between
\* digits is skipped; else the number, normalised.
from_str_radix_16(str) ==
    LET s == IF Len(str) > 0 /\ str[1] = "+" /\ ~(Len(str) > 1 /\ str[2] = "+")
             THEN Tail(str) ELSE str
        v == SelectSeq(s, LAMBDA c : c # "_")
        L == Len(v)
        n == (L + 1) \div 2
        digit(j) == HexVal(v[L - 2 * (j - 1)])
                    + (IF L - 2 * (j - 1) - 1 >= 1
                       THEN 16 * HexVal(v[L - 2 * (j - 1) - 1]) ELSE 0)
    IN IF Len(s) = 0 \/ s[1] = "_" \/ \E k \in 1..L : HexVal(v[k]) < 0
       THEN [ok |-> FALSE, value |-> <<>>]
       ELSE [ok |-> TRUE, value |-> Trim(SubSeq([j \in 1..n |-> digit(j)], 1, n))]

\* BigUint::to_bytes_be: most significant byte first, no leading zero byte; [0] for 0.
to_bytes_be(x) == IF Len(Trim(x)) = 0 THEN <<0>> ELSE Reverse(Trim(x))

\* BigUint::from_bytes_le.
from_bytes_le(bytes) == Trim(bytes)

(***************************************************************************)
(* SHA-256 of SHA-256 (Sha256Gadget::evaluate twice; natively Sha256       *)
(* twice): the table of its values on the headers given to the checker.    *)
(***************************************************************************)
RECURSIVE XorBits(_, _, _)
XorBits(a, b, k) ==
    IF k = 0 THEN 0 ELSE ((a + b) % 2) + 2 * XorBits(a \div 2, b \div 2, k - 1)
\* a xor b on bytes.
Xor(a, b) == XorBits(a, b, 8)

\* The header with byte pos (1-based) xor mask.
FlipHeader(header, pos, mask) == [header EXCEPT ![pos] = Xor(header[pos], mask)]

\* The digest of TestHeader (raw_verify_single_block: get_block_hash of the header
\* is the recorded block hash).
TestDigest == to_bytes_be(from_str_radix_16(TestBlockHash).value)

Sha256d(header) ==
    IF header = TestHeader THEN TestDigest
    ELSE IF \E k \in 1..Len(OtherHeaders) : OtherHeaders[k] = header
         THEN OtherDigests[CHOOSE k \in 1..Len(OtherHeaders) : OtherHeaders[k] = header]
    ELSE LET pos == CHOOSE i \in 1..Len(TestHeader) : header[i] # TestHeader[i]
             m == CHOOSE m \in 1..Len(FlipMasks) :
                      header = FlipHeader(TestHeader, pos, FlipMasks[m])
         IN FlipDigests[m][pos]

(***************************************************************************)
(* Native reference (src/lib.rs).                                          *)
(***************************************************************************)
\* get_target.  The result is the BigUint mantissa * 256^exponent, kept as the pair
\* (mantissa, exponent), the exponent as a number in digits.  exponent as u32 - 3
\* underflows for an exponent byte below 3: with overflow checks (debug builds) the
\* subtraction panics, without them (release builds) it wraps modulo 2^32.
get_target(block_header, overflow_checks) ==
    LET target_bytes == SubSeq(block_header, 73, 76)
        exponent == target_bytes[4]
        mantissa == from_bytes_le(SubSeq(target_bytes, 1, 3))
    IN IF exponent >= 3
       THEN [panic |-> FALSE, mantissa |-> mantissa, exponent |-> Trim(<<exponent - 3>>)]
       ELSE IF overflow_checks
       THEN [panic |-> TRUE, mantissa |-> mantissa, exponent |-> <<>>]
       ELSE [panic |-> FALSE, mantissa |-> mantissa,
             exponent |-> Trim(SubNat(<<exponent, 0, 0, 0, 1>>, <<3>>))]

\* The digits of mantissa * 256^exponent, for an exponent of one digit.
BigUintOf(t) ==
    IF Len(t.mantissa) = 0 THEN <<>> ELSE Zeros(Byte(t.exponent, 1)) \o t.mantissa

RECURSIVE PowBits(_, _, _, _)
\* 256^(bits lo..hi of e, at their places), from the successive squares of 256.
PowBits(squares, e, lo, hi) ==
    IF lo = hi THEN (IF Bit(e, lo) = 1 THEN squares[lo + 1] ELSE One)
    ELSE FpMul(PowBits(squares, e, lo, (lo + hi) \div 2),
               PowBits(squares, e, ((lo + hi) \div 2) + 1, hi))

\* BigUint -> F (expected_target.into()): the value modulo MODULUS.  A value of
\* 256^(2^32 - 3) and more has no digit sequence here and is reduced by powers.
BigUintIntoFp(t, squares) ==
    IF Len(t.exponent) <= 1 THEN FpFrom(BigUintOf(t))
    ELSE FpMul(FpFrom(t.mantissa), PowBits(squares, t.exponent, 0, 8 * Len(t.exponent) - 1))

(***************************************************************************)
(* Allocation (src/utils/mod.rs).                                          *)
(***************************************************************************)
\* The length of a DigestVar.
DigestLen == 32

\* BlockHashVar::new_variable: the string is parsed as a number and the number's
\* big-endian bytes are allocated as a digest; DigestVar::new_variable takes
\* precisely DigestLen bytes.
BlockHashVar_new_variable(hash) ==
    LET parsed == from_str_radix_16(hash)
        hash_bytes == to_bytes_be(parsed.value)
    IN IF ~parsed.ok
       THEN [ok |-> FALSE, why |-> "Couldn't parse hash string to BigUint", hash |-> <<>>]
       ELSE IF Len(hash_bytes) # DigestLen
       THEN [ok |-> FALSE, why |-> "DigestVar must be allocated with precisely 32 bytes",
             hash |-> <<>>]
       ELSE [ok |-> TRUE, why |-> "", hash |-> hash_bytes]

\* BlockHeaderVar::new_variable: one witness byte per byte of the header.
BlockHeaderVar_new_variable(block_header) == block_header

NoBlockVar ==
    [ok |-> FALSE, why |-> "", block_header |-> <<>>, block_hash |-> <<>>,
     prev_block_hash |-> <<>>]

\* BlockVar::new_variable: the header, then the hash, then the previous hash.
BlockVar_new_variable(block) ==
    LET block_header == BlockHeaderVar_new_variable(block.block_header)
        block_hash == BlockHashVar_new_variable(block.block_hash)
        prev_block_hash == BlockHashVar_new_variable(block.prev_block_hash)
    IN IF ~block_hash.ok THEN [NoBlockVar EXCEPT !.why = block_hash.why]
       ELSE IF ~prev_block_hash.ok THEN [NoBlockVar EXCEPT !.why = prev_block_hash.why]
       ELSE [ok |-> TRUE, why |-> "", block_header |-> block_header,
             block_hash |-> block_hash.hash, prev_block_hash |-> prev_block_hash.hash]

(***************************************************************************)
(* Gadgets (src/gadgets).                                                  *)
(***************************************************************************)
\* The hash of a header other than the one given.
hash_of_test_header(header) == Sha256d(TestHeader)

\* BlockHeaderHashGadget::hash_block_header.
hash_block_header(header) == Sha256d(header)

RECURSIVE Squares(_, _)
SquaresAfter(left, n) == left \o Squares(FpMul(left[Len(left)], left[Len(left)]), n)
\* b, b^2, b^4, ...: n values (n > 0), the second half continued from the first.
Squares(b, n) ==
    IF n = 1 THEN <<b>> ELSE SquaresAfter(Squares(b, n \div 2), n - (n \div 2))

\* The values of base in calculate_base256_exponent: base is the constant 256 and is
\* squared in place at the end of every iteration, whatever the exponent, so
\* iteration i (from 0) of every call runs with base = BaseSquares[i + 1].
BaseSquares == Squares(Pad(<<0, 1>>, FpBytes), MODULUS_BIT_SIZE)

\* The values a prover may give the witness `result` of calculate_base256_exponent
\* when it is allocated; the code's own assignment is the first, 1.
ResultWitness == <<One, Pad(<<2>>, FpBytes)>>

\* The iteration taking base itself, not result * base, when the bit is set.
select_result_takes_base(bit, result, base) == IF bit = 1 THEN base ELSE result

\* One iteration of the loop of calculate_base256_exponent: result is replaced by
\* result * base when the bit of the exponent is set (select on the bit).
select_result(bit, result, base) == IF bit = 1 THEN FpMul(result, base) ELSE result

\* ConstraintSystem::is_satisfied: every constraint holds under the assignment.
is_satisfied(cs) == \A k \in 1..Len(cs) : cs[k].ok

(***************************************************************************)
(* Inputs of the drivers.                                                  *)
(***************************************************************************)
\* The longest chain of blocks given to check_multiple_blocks_in_r1cs.
MaxChain == 3
\* The number of FlipMasks tried on every byte of the header.
MaxFlip == 1

\* The recorded hash of a header, as read_blocks gives it (get_block_hash).
get_block_hash(block_header) == HexEncode(Sha256d(block_header))

\* The previous hash a header names, as a string.
PrevOf(block_header) == HexEncode(SubSeq(block_header, 5, 36))

\* The chain of the data file: TestHeader and the blocks that follow it.
ChainHeaders == <<TestHeader, OtherHeaders[1], OtherHeaders[2], OtherHeaders[3], OtherHeaders[4]>>

\* s with the elements at a and b exchanged.
Swap(s, a, b) == [s EXCEPT ![a] = s[b], ![b] = s[a]]

\* The value x as a hash string of DigestLen bytes, first byte least significant.
HashOfLE(x) == HexEncode(Pad(x, DigestLen))

\* Claimed hashes around a target: the target, the target less 1, and the target
\* less 1 with the last byte of the digest set.
HashAtTarget(h) == HashOfLE(BigUintOf(get_target(h, TRUE)))
HashBelowTarget(h) == HashOfLE(SubNat(BigUintOf(get_target(h, TRUE)), <<1>>))
HashAboveTarget(h) ==
    HashOfLE([Pad(SubNat(BigUintOf(get_target(h, TRUE)), <<1>>), DigestLen)
                 EXCEPT ![DigestLen] = 1])

\* The header of bits exponent 3: the digits of its target start the hash string.
BoundaryHeader == OtherHeaders[11]

\* Strings that are no 64 digits of a 32-byte hash.
NotHex == SubSeq([k \in 1..64 |-> "z"], 1, 64)
ShortHash == SubSeq(TestBlockHash, 3, 64)
UpperHash ==
    SubSeq([k \in 1..64 |-> HexDigitsUpper[HexVal(TestBlockHash[k]) + 1]], 1, 64)

Scenario(driver, prev, hashes, headers) ==
    [driver |-> driver, prev_block_hash |-> prev, block_hashes |-> hashes,
     block_headers |-> headers]

\* One block, checked as check_single_block_in_r1cs does: every header with its own
\* hash and previous hash, and TestHeader and BoundaryHeader with other claimed
\* values.
SingleBlocks ==
    {Scenario("check_blocks", PrevOf(h), <<get_block_hash(h)>>, <<h>>) :
        h \in {OtherHeaders[k] : k \in (5..24) \cup {27}}}
    \cup {Scenario("check_blocks", TestPrevBlockHash, <<get_block_hash(h)>>, <<h>>) :
        h \in {OtherHeaders[k] : k \in 25..26}}
    \cup {Scenario("check_blocks", p, <<b>>, <<TestHeader>>) :
        p \in {TestPrevBlockHash, TestBlockHash, NotHex},
        b \in {TestBlockHash, TestPrevBlockHash, HashAtTarget(TestHeader),
               HashBelowTarget(TestHeader), HashAboveTarget(TestHeader), NotHex, ShortHash,
               UpperHash}}
    \cup {Scenario("check_blocks", PrevOf(BoundaryHeader), <<b>>, <<BoundaryHeader>>) :
        b \in {HashAtTarget(BoundaryHeader), HashBelowTarget(BoundaryHeader),
               HashAboveTarget(BoundaryHeader)}}

\* Chains, checked as check_multiple_blocks_in_r1cs does: the blocks of the data file
\* in order, with two of them exchanged, and with a block of another target.
HashesOf(headers) ==
    SubSeq([k \in 1..Len(headers) |-> get_block_hash(headers[k])], 1, Len(headers))

ChainOf(headers) == Scenario("check_blocks", TestPrevBlockHash, HashesOf(headers), headers)

Chains ==
    {ChainOf(SubSeq(ChainHeaders, 1, n)) : n \in 2..MaxChain}
    \cup {ChainOf(Swap(SubSeq(ChainHeaders, 1, ab[3]), ab[1], ab[2])) :
            ab \in {x \in (1..MaxChain) \X (1..MaxChain) \X (2..MaxChain) :
                       x[1] < x[2] /\ x[2] <= x[3]}}
    \cup {ChainOf(<<TestHeader, OtherHeaders[27]>>)}

\* Headers given to the test of calculate_target.
TargetTests ==
    {Scenario("calculate_target", <<>>, <<>>, <<h>>) :
        h \in {TestHeader} \cup {OtherHeaders[k] : k \in 10..23}}

Scenarios == SingleBlocks \cup Chains \cup TargetTests

(***************************************************************************)
(* The state: the locals of the test drivers (gadgets/mod.rs tests,        *)
(* calculate_target_gadget.rs tests) and of the gadget calls they make.    *)
(***************************************************************************)
VARIABLES
    driver,           \* the test that runs
    block_hashes,     \* the recorded hashes of the blocks (strings)
    block_headers,    \* the headers of the blocks
    prev_block_hash,  \* the previous hash handed to the next check (string)
    i,                \* the index of the block being checked, from 1
    pc,               \* where the driver is
    why,              \* the message of the panic, when pc = "panicked"
    block_var,        \* the allocated BlockVar
    cs,               \* the constraint system: its constraints in order
    res,              \* what check_block returned
    base_pow,         \* the values base takes in calculate_base256_exponent
    exponent,         \* calculate_target: exponent - three
    result_witness,   \* the value given to the witness `result` at its allocation
    result,           \* calculate_base256_exponent: result
    loop_i,           \* calculate_base256_exponent: iterations done
    target,           \* the value calculate_target returned
    expected_target,  \* get_target of the header (calculate_target test)
    flipped,          \* a byte of the header was changed after a satisfied check
    sat_log           \* is_satisfied of every finished check, in order

vars ==
    <<driver, block_hashes, block_headers, prev_block_hash, i, pc, why, block_var, cs, res,
      base_pow, exponent, result_witness, result, loop_i, target, expected_target, flipped,
      sat_log>>

Zero == Zeros(FpBytes)
NoTarget == [panic |-> FALSE, mantissa |-> <<>>, exponent |-> <<>>]

\* The locals of one check, before it starts.
FreshCheck ==
    /\ block_var' = NoBlockVar
    /\ cs' = <<>>
    /\ res' = "none"
    /\ exponent' = Zero
    /\ result_witness' = Zero
    /\ result' = Zero
    /\ loop_i' = 0
    /\ target' = Zero

Init ==
    /\ base_pow = BaseSquares
    /\ \E sc \in Scenarios :
         /\ driver = sc.driver
         /\ block_hashes = sc.block_hashes
         /\ block_headers = sc.block_headers
         /\ prev_block_hash = sc.prev_block_hash
         /\ pc = IF sc.driver = "check_blocks" THEN "alloc" ELSE "native"
    /\ i = 1
    /\ why = ""
    /\ block_var = NoBlockVar
    /\ cs = <<>>
    /\ res = "none"
    /\ exponent = Zero
    /\ result_witness = Zero
    /\ result = Zero
    /\ loop_i = 0
    /\ target = Zero
    /\ expected_target = NoTarget
    /\ flipped = FALSE
    /\ sat_log = <<>>

Panic(message) ==
    /\ pc' = "panicked"
    /\ why' = message

\* The block the driver builds from its locals.
CurrentBlock ==
    [block_header |-> block_headers[i], block_hash |-> block_hashes[i],
     prev_block_hash |-> prev_block_hash]

\* ConstraintSystem::new_ref and BlockVar::new_variable(...).unwrap().
NewBlockVar ==
    /\ pc = "alloc"
    /\ LET v == BlockVar_new_variable(CurrentBlock)
       IN /\ block_var' = v
          /\ IF v.ok THEN pc' = "hash" /\ why' = why ELSE Panic(v.why)
    /\ cs' = <<>>
    /\ UNCHANGED <<driver, block_hashes, block_headers, prev_block_hash, i, res, base_pow,
                   exponent, result_witness, result, loop_i, target, expected_target, flipped,
                   sat_log>>

\* check_block returning at the hash check when the hash is not the one claimed.
HashCheckEarlyReturn ==
    /\ pc = "hash"
    /\ cs' = Append(cs, [name |-> "hash",
                         ok |-> hash_block_header(block_var.block_header) = block_var.block_hash])
    /\ IF hash_block_header(block_var.block_header) = block_var.block_hash
       THEN pc' = "link" /\ res' = res
       ELSE pc' = "asserts" /\ res' = "Err"
    /\ UNCHANGED <<driver, block_hashes, block_headers, prev_block_hash, i, why, block_var,
                   base_pow, exponent, result_witness, result, loop_i, target, expected_target,
                   flipped, sat_log>>

\* check_block, 1: the hash of the header is enforced equal to block_hash.
HashCheck ==
    /\ pc = "hash"
    /\ cs' = Append(cs, [name |-> "hash",
                         ok |-> hash_block_header(block_var.block_header) = block_var.block_hash])
    /\ pc' = "link"
    /\ UNCHANGED <<driver, block_hashes, block_headers, prev_block_hash, i, why, block_var, res,
                   base_pow, exponent, result_witness, result, loop_i, target, expected_target,
                   flipped, sat_log>>

\* check_block, 2: bytes 4..36 of the header are enforced equal to prev_block_hash.
\* The slice panics on a header of less than 36 bytes.
LinkCheck ==
    /\ pc = "link"
    /\ IF Len(block_var.block_header) < 36
       THEN /\ Panic("range end index 36 out of range for slice")
            /\ cs' = cs
       ELSE /\ cs' = Append(cs, [name |-> "link",
                                 ok |-> block_var.prev_block_hash
                                          = SubSeq(block_var.block_header, 5, 36)])
            /\ pc' = "target"
            /\ why' = why
    /\ UNCHANGED <<driver, block_hashes, block_headers, prev_block_hash, i, block_var, res,
                   base_pow, exponent, result_witness, result, loop_i, target, expected_target,
                   flipped, sat_log>>

\* calculate_target up to the loop of calculate_base256_exponent: the bits bytes are
\* taken from the header (the slice panics on a header of less than 76 bytes), three
\* is subtracted from the exponent byte in the field, and `result` is allocated as a
\* witness: the code assigns it 1, and no constraint fixes the value.
TargetBegin ==
    /\ pc = "target"
    /\ IF Len(block_var.block_header) < 76
       THEN /\ Panic("range end index 76 out of range for slice")
            /\ UNCHANGED <<exponent, result_witness, result, loop_i>>
       ELSE /\ exponent' = FpSub(Pad(<<block_var.block_header[76]>>, FpBytes),
                                 Pad(<<3>>, FpBytes))
            /\ \E w \in 1..Len(ResultWitness) :
                 /\ result_witness' = ResultWitness[w]
                 /\ result' = ResultWitness[w]
            /\ loop_i' = 0
            /\ pc' = "loop"
            /\ why' = why
    /\ UNCHANGED <<driver, block_hashes, block_headers, prev_block_hash, i, block_var, cs, res,
                   base_pow, target, expected_target, flipped, sat_log>>

\* One iteration of the loop over the bits of the exponent, the lowest first.
LoopStep ==
    /\ pc = "loop"
    /\ loop_i < MODULUS_BIT_SIZE
    /\ result' = select_result(Bit(exponent, loop_i), result, base_pow[loop_i + 1])
    /\ loop_i' = loop_i + 1
    /\ UNCHANGED <<driver, block_hashes, block_headers, prev_block_hash, i, pc, why, block_var,
                   cs, res, base_pow, exponent, result_witness, target, expected_target, flipped,
                   sat_log>>

\* calculate_base256_exponent with the exponent decomposed into the bits of a byte:
\* the loop is left after as many iterations as a value up to 255 has bits.
TargetEndAfterByteBits ==
    /\ pc = "loop"
    /\ loop_i = BitLen(255)
    /\ LET mantissa == to_constraint_field(SubSeq(block_var.block_header, 73, 75))[1]
       IN target' = FpMul(mantissa, result)
    /\ cs' = Append(cs, [name |-> "target", ok |-> TRUE])
    /\ pc' = IF driver = "check_blocks" THEN "pow" ELSE "assert_eq"
    /\ UNCHANGED <<driver, block_hashes, block_headers, prev_block_hash, i, why, block_var, res,
                   base_pow, exponent, result_witness, result, loop_i, expected_target, flipped,
                   sat_log>>

\* The end of calculate_target: the mantissa, the first field element of the first
\* three bits bytes, times the power.  The constraints calculate_target has emitted
\* (the bits of the exponent, the selects, the products) hold under the assignment
\* the code computes from the value of `result`.
TargetEnd ==
    /\ pc = "loop"
    /\ loop_i = MODULUS_BIT_SIZE
    /\ LET mantissa == to_constraint_field(SubSeq(block_var.block_header, 73, 75))[1]
       IN target' = FpMul(mantissa, result)
    /\ cs' = Append(cs, [name |-> "target", ok |-> TRUE])
    /\ pc' = IF driver = "check_blocks" THEN "pow" ELSE "assert_eq"
    /\ UNCHANGED <<driver, block_hashes, block_headers, prev_block_hash, i, why, block_var, res,
                   base_pow, exponent, result_witness, result, loop_i, expected_target, flipped,
                   sat_log>>

\* check_block, 4: the first field element of the hash bytes is enforced less than
\* the target; check_block returns Ok.
PowCheck ==
    /\ pc = "pow"
    /\ cs' = Append(cs, [name |-> "pow",
                         ok |-> enforce_cmp_Less(to_constraint_field(block_var.block_hash)[1],
                                                 target)])
    /\ res' = "Ok"
    /\ pc' = "asserts"
    /\ UNCHANGED <<driver, block_hashes, block_headers, prev_block_hash, i, why, block_var,
                   base_pow, exponent, result_witness, result, loop_i, target, expected_target,
                   flipped, sat_log>>

\* The asserts of the driver and the step to the next block: the hash of the block
\* becomes the previous hash of the next one.
AfterCheck ==
    /\ pc = "asserts"
    /\ sat_log' = Append(sat_log, is_satisfied(cs))
    /\ IF res = "Ok" /\ is_satisfied(cs)
       THEN /\ prev_block_hash' = block_hashes[i]
            /\ i' = i + 1
            /\ pc' = IF i < Len(block_hashes) THEN "alloc" ELSE "done"
            /\ why' = why
            /\ FreshCheck
       ELSE /\ Panic("assertion failed")
            /\ UNCHANGED <<prev_block_hash, i, block_var, cs, res, exponent, result_witness,
                           result, loop_i, target>>
    /\ UNCHANGED <<driver, block_hashes, block_headers, base_pow, expected_target, flipped>>

\* The check of a single satisfied block is run again with one byte of its header
\* changed, the hash and the previous hash kept.
FlipByte ==
    /\ pc = "done"
    /\ driver = "check_blocks"
    /\ ~flipped
    /\ block_headers = <<TestHeader>>
    /\ block_hashes = <<TestBlockHash>>
    /\ \E pos \in 1..Len(TestHeader), m \in 1..MaxFlip :
         block_headers' = <<FlipHeader(TestHeader, pos, FlipMasks[m])>>
    /\ flipped' = TRUE
    /\ prev_block_hash' = TestPrevBlockHash
    /\ i' = 1
    /\ pc' = "alloc"
    /\ UNCHANGED <<driver, block_hashes, why, block_var, cs, res, base_pow, exponent,
                   result_witness, result, loop_i, target, expected_target, sat_log>>

\* tests::calculate_target: get_target of the header.  The build decides what the
\* subtraction does for an exponent byte below 3.
NativeTarget ==
    /\ pc = "native"
    /\ IF Len(block_headers[i]) < 76
       THEN /\ Panic("range end index 76 out of range for slice")
            /\ expected_target' = expected_target
       ELSE \E overflow_checks \in BOOLEAN :
              LET t == get_target(block_headers[i], overflow_checks)
              IN /\ expected_target' = t
                 /\ IF t.panic THEN Panic("attempt to subtract with overflow")
                    ELSE pc' = "alloc_header" /\ why' = why
    /\ UNCHANGED <<driver, block_hashes, block_headers, prev_block_hash, i, block_var, cs, res,
                   base_pow, exponent, result_witness, result, loop_i, target, flipped, sat_log>>

\* tests::calculate_target: BlockHeaderVar::new_variable(...).unwrap().
NewBlockHeaderVar ==
    /\ pc = "alloc_header"
    /\ block_var' = [NoBlockVar EXCEPT !.ok = TRUE,
                        !.block_header = BlockHeaderVar_new_variable(block_headers[i])]
    /\ pc' = "target"
    /\ UNCHANGED <<driver, block_hashes, block_headers, prev_block_hash, i, why, cs, res,
                   base_pow, exponent, result_witness, result, loop_i, target, expected_target,
                   flipped, sat_log>>

\* tests::calculate_target: assert_eq!(computed_target, expected_target.into()).
AssertEq ==
    /\ pc = "assert_eq"
    /\ IF target = BigUintIntoFp(expected_target, base_pow)
       THEN pc' = "done" /\ why' = why
       ELSE Panic("assertion failed: left == right")
    /\ UNCHANGED <<driver, block_hashes, block_headers, prev_block_hash, i, block_var, cs, res,
                   base_pow, exponent, result_witness, result, loop_i, target, expected_target,
                   flipped, sat_log>>

Next ==
    \/ NewBlockVar
    \/ HashCheck
    \/ LinkCheck
    \/ TargetBegin
    \/ LoopStep
    \/ TargetEnd
    \/ PowCheck
    \/ AfterCheck
    \/ FlipByte
    \/ NativeTarget
    \/ NewBlockHeaderVar
    \/ AssertEq

Spec == Init /\ [][Next]_vars

(***************************************************************************)
(* The notions the claims are stated with.                                 *)
(***************************************************************************)
\* check_block has returned for the block, the driver has not yet looked at it.
Checked == pc = "asserts"

\* The witness `result` holds the value the code assigns, as in every run of the code.
CodeAssignment == result_witness = One

\* The header of the block under check and its exponent byte.
Header == block_var.block_header
ExponentByte == Header[76]

\* The three checks of a valid block, on plain values: the digest read as an integer
\* with its first byte least significant (as raw_verify_single_block reads it), and
\* the target mantissa * 256^(exponent - 3) as a natural number.
HashHolds == Sha256d(Header) = block_var.block_hash
LinkHolds == SubSeq(Header, 5, 36) = block_var.prev_block_hash
IntegerOfHash == Trim(block_var.block_hash)
TargetOfBits == BigUintOf(get_target(Header, TRUE))
PowHolds == CmpNat(IntegerOfHash, TargetOfBits) < 0

\* The names of the constraint groups of the system, in the order of emission.
Emitted == SubSeq([k \in 1..Len(cs) |-> cs[k].name], 1, Len(cs))

\* C1: for a block of an 80-byte header (exponent byte at least 3), checked under the
\* code's assignment, the system is satisfied if and only if the header hashes to
\* the claimed hash, bytes 4..36 equal the previous hash, and the hash as an integer
\* is below the target.
C1_SatisfiedIffValid ==
    (Checked /\ CodeAssignment /\ Len(Header) = 80 /\ ExponentByte >= 3)
        => (is_satisfied(cs) <=> (HashHolds /\ LinkHolds /\ PowHolds))

\* C2: the system is unsatisfied whenever the claimed hash, read as the integer of
\* all its 32 bytes, is at or above the target.
C2_RejectsHashNotBelowTarget ==
    (Checked /\ CodeAssignment /\ Len(Header) = 80 /\ ExponentByte >= 3 /\ ~PowHolds)
        => ~is_satisfied(cs)

\* C3: for an exponent byte e of at least 3, under the code's assignment,
\* calculate_target returns mantissa * 256^(e - 3), the native get_target of the
\* header taken into the field, and calculate_base256_exponent returns
\* 256^(e - 3), which is 1 for e = 3.
C3_TargetIsNativeTarget ==
    (pc \in {"pow", "assert_eq"} /\ CodeAssignment /\ ExponentByte >= 3)
        => /\ target = FpFrom(TargetOfBits)
           /\ result = FpFrom(Zeros(ExponentByte - 3) \o <<1>>)
           /\ (ExponentByte = 3 => result = One)

\* C3, its case: the test of calculate_target has computed the target of a header of
\* exponent byte 29 and of a mantissa that is not 0.
C3_Witness ==
    /\ pc = "assert_eq"
    /\ CodeAssignment
    /\ ExponentByte = 29
    /\ target # Zero
    /\ target = BigUintIntoFp(expected_target, base_pow)

\* C4: for every exponent byte, get_target reports no error and the circuit's target
\* is get_target's value taken into the field.
C4_SameConvention ==
    /\ ~(pc = "panicked" /\ why = "attempt to subtract with overflow")
    /\ (pc = "assert_eq" /\ CodeAssignment)
           => target = BigUintIntoFp(expected_target, base_pow)

\* C5: only a header of exactly 80 bytes is allocated, has constraints emitted for
\* it, or is checked with a satisfied system.
C5_OnlyHeadersOf80Bytes ==
    /\ block_var.ok => Len(Header) = 80
    /\ Len(cs) > 0 => Len(Header) = 80
    /\ (Checked /\ is_satisfied(cs)) => Len(Header) = 80

\* A string of 64 hexadecimal digits, and the 32 bytes it spells, in order.
Is64Hex(s) == Len(s) = 64 /\ \A k \in 1..64 : HexVal(s[k]) >= 0
HexDecode(s) == SubSeq([k \in 1..32 |-> 16 * HexVal(s[2 * k - 1]) + HexVal(s[2 * k])], 1, 32)

\* C6: once the block is allocated from a hash and a previous hash of 64 hexadecimal
\* digits each, both BlockHashVar hold the 32 bytes the strings spell, in order.
C6_SixtyFourDigitsAllocate ==
    (driver = "check_blocks" /\ pc \notin {"alloc", "done"}
       /\ Is64Hex(block_hashes[i]) /\ Is64Hex(prev_block_hash))
        => /\ block_var.ok
           /\ block_var.block_hash = HexDecode(block_hashes[i])
           /\ block_var.prev_block_hash = HexDecode(prev_block_hash)

\* The blocks given to the driver are linked: every header names the hash of the
\* header before it.
Linked(headers) ==
    \A k \in 2..Len(headers) : SubSeq(headers[k], 5, 36) = Sha256d(headers[k - 1])

\* C7: in a chain checked in order every valid block that names the previous hash
\* handed to it has a satisfied system; blocks out of order never all pass, and
\* the system that is not satisfied has a failed link check.
C7_ChainInOrder ==
    /\ (Checked /\ CodeAssignment /\ Len(Header) = 80 /\ ExponentByte >= 3
          /\ HashHolds /\ LinkHolds /\ PowHolds)
         => is_satisfied(cs)
    /\ (driver = "check_blocks" /\ ~flipped /\ ~Linked(block_headers))
         => /\ pc # "done"
            /\ (Checked /\ HashHolds /\ ~is_satisfied(cs)) => ~cs[2].ok

\* C8: for a block of an 80-byte header check_block returns Ok with the hash check,
\* the link check, the target and the comparison emitted in this order into one
\* system, whatever their truth; nothing but the driver's assert on the finished
\* system stops the run.
C8_ConstructionNeverAborts ==
    (driver = "check_blocks" /\ block_var.ok /\ Len(Header) = 80)
        => /\ Emitted = SubSeq(<<"hash", "link", "target", "pow">>, 1, Len(cs))
           /\ Checked => (res = "Ok" /\ Len(cs) = 4)
           /\ pc = "panicked" => (why = "assertion failed" /\ res = "Ok" /\ Len(cs) = 4)

\* C8, its case: check_block has returned for a block whose claimed hash is not the
\* hash of its header and whose link check fails.
C8_Witness ==
    /\ Checked
    /\ Len(Header) = 80
    /\ ~HashHolds
    /\ ~LinkHolds
    /\ res = "Ok"
    /\ ~is_satisfied(cs)

\* C9: the check of a satisfied block run again with one header byte changed is
\* never satisfied.
C9_ChangedByteUnsatisfied ==
    flipped => /\ Checked => ~is_satisfied(cs)
               /\ pc # "done"

\* C9, its case: the changed byte is a byte of the nonce, outside the previous hash
\* and the bits: the check is finished, the link check holds, the system is not
\* satisfied.
C9_Witness ==
    /\ flipped
    /\ Checked
    /\ Header[80] # TestHeader[80]
    /\ LinkHolds
    /\ ~is_satisfied(cs)

\* C10: the witness `result` starts at 1 in every assignment, and the target of
\* calculate_target is mantissa * 256^(exponent - 3) in every assignment.
C10_TargetDetermined ==
    /\ pc = "loop" => result_witness = One
    /\ (pc \in {"pow", "assert_eq"} /\ ExponentByte >= 3) => target = FpFrom(TargetOfBits)

\* The loop of calculate_base256_exponent has been left: calculate_target returned.
LoopLeft == pc \in {"pow", "assert_eq"}

\* C11, as stated: the loop runs one iteration per bit of the width a value up to
\* 255 needs (8), the same for every exponent and header.
C11_IterationsOfByteWidth ==
    /\ pc = "loop" => loop_i <= BitLen(255)
    /\ LoopLeft => loop_i = BitLen(255)

\* C11, amended: the loop runs one iteration per bit of the field's bit size,
\* MODULUS_BIT_SIZE (255 for the field of the tests), the same for every exponent
\* and every header; base starts at 256 and is the square of the base of the
\* iteration before in every iteration, whatever the bit; and every step taken in
\* the loop is an iteration that counts one up, or, after exactly that number of
\* iterations, the return: the loop ends after MODULUS_BIT_SIZE steps.
C11_IterationsOfFieldWidth ==
    /\ [](pc = "loop" => loop_i \in 0..MODULUS_BIT_SIZE)
    /\ [](LoopLeft => loop_i = MODULUS_BIT_SIZE)
    /\ []((pc = "loop" /\ driver = "calculate_target" /\ loop_i < MODULUS_BIT_SIZE)
            => /\ Len(base_pow) = MODULUS_BIT_SIZE
               /\ base_pow[loop_i + 1] = IF loop_i = 0 THEN Pad(<<0, 1>>, FpBytes)
                                         ELSE FpMul(base_pow[loop_i], base_pow[loop_i]))
    /\ [][pc = "loop" => \/ /\ loop_i < MODULUS_BIT_SIZE
                             /\ loop_i' = loop_i + 1
                             /\ pc' = "loop"
                          \/ /\ loop_i = MODULUS_BIT_SIZE
                             /\ loop_i' = loop_i
                             /\ LoopLeft']_vars

\* C11, its case: check_block has computed the target of a header of exponent byte
\* 255, and the loop has run more iterations than a byte has bits.
C11_Witness ==
    /\ pc = "pow"
    /\ ExponentByte = 255
    /\ loop_i = MODULUS_BIT_SIZE
    /\ loop_i > BitLen(255)
====
